---- MODULE Spec2Model ----
(***************************************************************************)
(* Resolution-and-refresh engine of the FootyStream catalog.               *)
(*                                                                         *)
(*   10minutes.py     resolution loop: first m3u8 resolution of a match    *)
(*   refresh_m3u8.py  refresh loop: re-resolution of expiring m3u8 URLs    *)
(*   minutes30.py     discovery loop: stream links of a match              *)
(*   m3u8.py          scrape_m3u8, the page loader                         *)
(*                                                                         *)
(*   get_match.py     listing scraper: rewrites the catalog                *)
(*                                                                         *)
(* The loops are separate processes sharing footystream_matches.json.      *)
(* Each works on its own in-memory copy between a load and a save.         *)
(*                                                                         *)
(* Python values: an optional value (None or a value) is a set with at     *)
(* most one element, None being {}.  A string is either a short TLA+       *)
(* string (link, id) or, for m3u8 URLs, a record [path, query] whose query *)
(* is the sequence of key=value pairs of the query string; a value is a    *)
(* sequence of one-character strings.  Instants are integers (seconds).    *)
(***************************************************************************)
EXTENDS Integers, Sequences, FiniteSets, TLC

VARIABLES
    now,          \* wall clock, seconds (time.time() / datetime.now())
    file,         \* the list in footystream_matches.json when it holds one
    fileState,    \* "json", "missing", "truncated" or "cutchar": see load
    probe,        \* argument and result of a function applied on its own
    \* ---- resolution loop (10minutes.py) ----
    resPc,        \* position of monitor_and_update / update_match_m3u8
    resData,      \* matches, the list loaded by update_match_m3u8
    resIdx,       \* index of the match the for loop of line 95 is at
    resCand,      \* index of the link the for loop of line 58 is at
    resUpdated,   \* updated_count
    resLoaded,    \* history: the list as load_matches returned it this tick
    resCalls,     \* history: scrape_m3u8 calls of this tick, in order
    resWrites,    \* history: the lists save_matches wrote this tick, in order
    resTouched,   \* history: indexes of the matches assigned to this tick
    resSaw,       \* history: state of the file when this tick loaded it
    resPending,   \* history: the list whose save failed in the last tick
    \* ---- refresh loop (refresh_m3u8.py) ----
    refPc,        \* position of MatchesMonitor.monitor / check_and_refresh_matches
    refData,      \* self.data
    refIdx,       \* index of the match the for loop of line 184 is at
    refRefreshed, \* refreshed_count
    refLoaded,    \* history: self.data as loaded this tick
    refCalls,     \* history: scrape_m3u8 calls of this tick, in order
    refWrites,    \* history: the lists save_matches wrote this tick, in order
    refTouched,   \* history: indexes of the matches assigned to this tick
    refDue,       \* history: matches found with expiresAt - now <= threshold
    refSaw,       \* history: state of the file when this tick loaded it
    \* ---- discovery loop (minutes30.py) ----
    disPc,        \* position of monitor_and_update / update_match_links
    disData,      \* matches, the list loaded by update_match_links
    disIdx,       \* index of the match the for loop of line 65 is at
    disUpdated,   \* updated_count
    disLoaded,    \* history: the list as load_matches returned it this tick
    disCalls,     \* history: get_match_links calls of this tick, in order
    disWrites,    \* history: the lists save_matches wrote this tick, in order
    disTouched,   \* history: indexes of the matches assigned to this tick
    disSaw        \* history: state of the file when this tick loaded it

resVars == <<resPc, resData, resIdx, resCand, resUpdated, resLoaded, resCalls,
             resWrites, resTouched, resSaw, resPending>>
refVars == <<refPc, refData, refIdx, refRefreshed, refLoaded, refCalls,
             refWrites, refTouched, refDue, refSaw>>
disVars == <<disPc, disData, disIdx, disUpdated, disLoaded, disCalls,
             disWrites, disTouched, disSaw>>
disk == <<file, fileState>>
vars == <<now, disk, probe, resVars, refVars, disVars>>

----------------------------------------------------------------------------
(* Bounds of the model *)

\* number of times the clock advances
MaxClockSteps == 2
\* largest number of matches in the catalog
MaxRecs == 2
\* largest number of parameters in the query of a URL given to
\* get_expiry_timestamp
MaxParams == 2
\* largest number of responses a page receives during one scrape_m3u8
MaxResponses == 2

(* Program constants *)

\* timedelta(minutes=10) of is_within_10_minutes
WindowMinutes == 10
\* expiry_threshold_minutes, default of check_and_refresh_matches
ThresholdMinutes == 5
\* threshold_seconds = minutes * 60
SecondsPerMinute == 60
\* timedelta(minutes=30) of is_within_30_minutes
DiscoveryMinutes == 30
\* response.status == 200 of handle_response
StatusOK == 200

(* Clock of the model: the first instant and the step of an advance *)
T0 == 2 * WindowMinutes * SecondsPerMinute
ClockStep == ThresholdMinutes * SecondsPerMinute

----------------------------------------------------------------------------
(* Python values *)

None == {}
Some(v) == {v}
The(opt) == CHOOSE v \in opt : TRUE

Digits == {"0", "1", "2", "3", "4", "5", "6", "7", "8", "9"}

DigitVal(c) ==
    CASE c = "0" -> 0 [] c = "1" -> 1 [] c = "2" -> 2 [] c = "3" -> 3
      [] c = "4" -> 4 [] c = "5" -> 5 [] c = "6" -> 6 [] c = "7" -> 7
      [] c = "8" -> 8 [] c = "9" -> 9

\* Python integers are unbounded, the integers of the checker are not.  An
\* integer written with 13 digits or more is past 253402300799, the last
\* second of year 9999: every such integer is read as Beyond, which exceeds
\* every instant and every other expiry value of the model.
Beyond == 10^9

RECURSIVE DigitsValue(_)
DigitsValue(s) ==
    IF s = <<>> THEN 0
    ELSE IF Len(s) >= 13 /\ s[1] # "0" THEN Beyond
    ELSE DigitsValue(SubSeq(s, 1, Len(s) - 1)) * 10 + DigitVal(s[Len(s)])

\* datetime.fromtimestamp(ts) raises ValueError (year out of range) past
\* year 9999
fromtimestamp_raises(ts) == ts >= Beyond

\* int(s) of Python on the characters of the model: an optional sign, then
\* one or more decimal digits; anything else raises ValueError (None here).
PyInt(s) ==
    LET signed == Len(s) > 0 /\ s[1] \in {"-", "+"}
        body   == IF signed THEN Tail(s) ELSE s
    IN  IF Len(body) > 0 /\ \A i \in 1..Len(body) : body[i] \in Digits
        THEN Some(IF signed /\ s[1] = "-" THEN 0 - DigitsValue(body)
                  ELSE DigitsValue(body))
        ELSE None

\* bool(d) of a dict: true iff the dict has a key
DictTruthy(d) == DOMAIN d # {}

\* bool(v) of a value that is None or a dict
Truthy(opt) == opt # None /\ \A d \in opt : DictTruthy(d)

----------------------------------------------------------------------------
(* m3u8 URLs the page loader can observe *)

Url(path, query) == [path |-> path, query |-> query]
Param(k, v) == [k |-> k, v |-> v]

\* opaque-token URL, no expires parameter
UrlToken == Url("t.m3u8", <<Param("token", <<"x">>)>>)
\* expires=0
UrlExpZero == Url("e.m3u8", <<Param("expires", <<"0">>)>>)
\* expires=1800
UrlExp == Url("e.m3u8", <<Param("expires", <<"1", "8", "0", "0">>)>>)

\* expires=9999999999999
UrlExpHuge ==
    Url("e.m3u8", <<Param("expires", <<"9", "9", "9", "9", "9", "9", "9",
                                       "9", "9", "9", "9", "9", "9">>)>>)

LoaderUrls == {UrlToken, UrlExpZero, UrlExp, UrlExpHuge}

Headers == "hdr"

\* what one load of a page does: no matching response within the timeout,
\* an exception (browser launch, navigation), or a matching response
Outcomes == {[kind |-> "timeout", url |-> UrlToken],
             [kind |-> "error", url |-> UrlToken]}
            \cup {[kind |-> "ok", url |-> u] : u \in LoaderUrls}

\* scrape_m3u8: the dict it returns when it does not raise
scrape_m3u8(out) ==
    IF out.kind = "ok"
    THEN [m3u8 |-> Some(out.url), headers |-> Some(Headers)]
    ELSE [m3u8 |-> None, headers |-> None]

----------------------------------------------------------------------------
(* Catalog records *)

Links == {"A", "B", "C"}

\* a dateTime value: ISO text standing for instant t; text that
\* datetime.fromisoformat rejects, '' (what match.get('dateTime', '') gives
\* for a missing key) included; or null
Iso(t) == [iso |-> TRUE, t |-> t, null |-> FALSE]
BadDate == [iso |-> FALSE, t |-> 0, null |-> FALSE]
NullDate == [iso |-> FALSE, t |-> 0, null |-> TRUE]

\* datetime.fromisoformat(s.replace('Z', '+00:00')): None stands for the
\* raise, ValueError of fromisoformat or AttributeError of None.replace
fromisoformat(d) == IF ~d.null /\ d.iso THEN Some(d.t) ELSE None

\* a match as the listing scraper writes it, with the links the link updater
\* gave it at the start of the model's clock
Match(id, dt, links) ==
    [doc_id |-> id, dateTime |-> dt, stream_links |-> links,
     links_updated_at |-> IF links = <<>> THEN None ELSE Some(T0 - ClockStep),
     m3u8_url |-> None, working_embed_url |-> None, m3u8_updated_at |-> None]

\* matches as the listing scraper and the link updater leave them
InitMatches ==
    { Match("m1", Iso(T0 + 2 * ClockStep), <<"A", "B", "C">>),
      Match("m2", Iso(T0 - WindowMinutes * SecondsPerMinute), <<"A">>),
      Match("m3", BadDate, <<"B">>),
      Match("m4", Iso(T0 + 2 * ClockStep), <<>>) }

RECURSIVE SeqsUpTo(_, _)
SeqsUpTo(S, n) ==
    IF n = 0 THEN {<<>>}
    ELSE LET shorter == SeqsUpTo(S, n - 1)
         IN  shorter \cup {Append(s, x) : s \in shorter, x \in S}

Distinct(s) == \A i, j \in 1..Len(s) : i # j => s[i].doc_id # s[j].doc_id

InitCatalogs == {s \in SeqsUpTo(InitMatches, MaxRecs) : Distinct(s)}

----------------------------------------------------------------------------
(* 10minutes.py *)

(* The file as a reader finds it.  "json": it holds a list of matches.
   "missing": open raises FileNotFoundError.  "truncated": the text stops
   before the JSON value is complete (the empty file that open(..., 'w')
   leaves, or a write cut short): json.load raises JSONDecodeError.
   "cutchar": the text stops inside a multi-byte character of a name
   (ensure_ascii=False): reading raises UnicodeDecodeError. *)
FileStates == {"json", "missing", "truncated", "cutchar"}

\* the exceptions of open and json.load that load_matches does not catch
\* (lines 10-14 of 10minutes.py, 24-32 of refresh_m3u8.py)
LoadRaises(st) == st = "cutchar"

\* load_matches: the list read from the file, [] when FileNotFoundError or
\* JSONDecodeError is caught
res_load_matches(f, st) == IF st = "json" THEN f ELSE <<>>

\* the file between open(filename, 'w') and the end of json.dump, and after
\* a write that raised: empty or holding the beginning of the text
PartialStates == {"truncated", "cutchar"}

\* is_within_10_minutes accepting only matches that have not started
is_within_10_minutes_ahead(d, t) ==
    LET match_time == fromisoformat(d)
    IN  IF match_time = None THEN FALSE
        ELSE LET time_diff == The(match_time) - t
             IN  0 <= time_diff
                 /\ time_diff <= WindowMinutes * SecondsPerMinute

\* is_within_10_minutes, at wall-clock time t
is_within_10_minutes(d, t) ==
    LET match_time == fromisoformat(d)
    IN  IF match_time = None THEN FALSE
        ELSE LET time_diff == The(match_time) - t
             IN  0 - WindowMinutes * SecondsPerMinute <= time_diff
                 /\ time_diff <= WindowMinutes * SecondsPerMinute

\* update_match_m3u8 without the skip of line 102
NeedsResolutionAgain(match, t) ==
    /\ match.stream_links # <<>>
    /\ is_within_10_minutes(match.dateTime, t)

\* the skip tests of update_match_m3u8 (lines 101-113): TRUE when the match
\* goes on to get_working_m3u8
NeedsResolution(match, t) ==
    /\ ~Truthy(match.m3u8_url)
    /\ match.stream_links # <<>>
    /\ is_within_10_minutes(match.dateTime, t)

\* get_working_m3u8 moving on to the wrong link after a raise
GwmIterationJumps(links, c, out) ==
    LET m3u8_url == Some(scrape_m3u8(out))
    IN  IF out.kind # "error" /\ Truthy(m3u8_url)
        THEN [returns |-> TRUE, next |-> c,
              ret |-> [m3u8_url |-> m3u8_url, working_embed_url |-> Some(links[c])]]
        ELSE IF c < Len(links)
        THEN [returns |-> FALSE, next |-> Len(links),
              ret |-> [m3u8_url |-> None, working_embed_url |-> None]]
        ELSE [returns |-> TRUE, next |-> c,
              ret |-> [m3u8_url |-> None, working_embed_url |-> None]]

\* one iteration of the for loop of get_working_m3u8 (lines 58-72) on link
\* number c, the load having outcome out.  ret is the returned pair when the
\* function returns in this iteration.
GwmIteration(links, c, out) ==
    LET m3u8_url == Some(scrape_m3u8(out))
    IN  IF out.kind # "error" /\ Truthy(m3u8_url)
        THEN [returns |-> TRUE, next |-> c,
              ret |-> [m3u8_url |-> m3u8_url, working_embed_url |-> Some(links[c])]]
        ELSE IF c < Len(links)
        THEN [returns |-> FALSE, next |-> c + 1,
              ret |-> [m3u8_url |-> None, working_embed_url |-> None]]
        ELSE [returns |-> TRUE, next |-> c,
              ret |-> [m3u8_url |-> None, working_embed_url |-> None]]

\* update_match_m3u8 recording the first link instead of the working one
ResAssignFirstLink(match, ret, t) ==
    IF Truthy(ret.m3u8_url)
    THEN [match EXCEPT !.m3u8_url = ret.m3u8_url,
                       !.working_embed_url = Some(match.stream_links[1]),
                       !.m3u8_updated_at = Some(t)]
    ELSE match

\* update_match_m3u8 also dropping the links that did not work
ResAssignPrunesLinks(match, ret, t) ==
    IF Truthy(ret.m3u8_url)
    THEN [match EXCEPT !.m3u8_url = ret.m3u8_url,
                       !.working_embed_url = ret.working_embed_url,
                       !.m3u8_updated_at = Some(t),
                       !.stream_links = <<The(ret.working_embed_url)>>]
    ELSE match

\* update_match_m3u8 recording the m3u8 URL without the link that gave it
ResAssignNoHandle(match, ret, t) ==
    IF Truthy(ret.m3u8_url)
    THEN [match EXCEPT !.m3u8_url = ret.m3u8_url,
                       !.m3u8_updated_at = Some(t)]
    ELSE match

\* lines 121-126 of update_match_m3u8: the match after get_working_m3u8
\* returned ret at time t
ResAssign(match, ret, t) ==
    IF Truthy(ret.m3u8_url)
    THEN [match EXCEPT !.m3u8_url = ret.m3u8_url,
                       !.working_embed_url = ret.working_embed_url,
                       !.m3u8_updated_at = Some(t)]
    ELSE match

\* line 134: whether the tick saves
ResShouldSave(updated_count) == updated_count > 0

\* update_match_m3u8 started by a timer, without waiting for the last call
\* to end
ResLoadEarly ==
    /\ resPc \in {"sleep", "scan", "try"}
    /\ LET matches == res_load_matches(file, fileState)
       IN  IF LoadRaises(fileState)
           THEN /\ resPc' = "failed"
                /\ UNCHANGED <<resData, resLoaded>>
           ELSE /\ resData' = matches
                /\ resLoaded' = matches
                /\ resPc' = IF matches = <<>> THEN "done" ELSE "scan"
    /\ resSaw' = fileState
    /\ resIdx' = 1
    /\ resCand' = 1
    /\ resUpdated' = 0
    /\ resCalls' = <<>>
    /\ resWrites' = <<>>
    /\ resTouched' = {}
    /\ UNCHANGED <<now, disk, probe, resPending, refVars, disVars>>

\* update_match_m3u8, lines 85-93: load; an empty list returns at once; an
\* exception load_matches does not catch leaves update_match_m3u8
ResLoad ==
    /\ resPc = "sleep"
    /\ LET matches == res_load_matches(file, fileState)
       IN  IF LoadRaises(fileState)
           THEN /\ resPc' = "failed"
                /\ UNCHANGED <<resData, resLoaded>>
           ELSE /\ resData' = matches
                /\ resLoaded' = matches
                /\ resPc' = IF matches = <<>> THEN "done" ELSE "scan"
    /\ resSaw' = fileState
    /\ resIdx' = 1
    /\ resCand' = 1
    /\ resUpdated' = 0
    /\ resCalls' = <<>>
    /\ resWrites' = <<>>
    /\ resTouched' = {}
    /\ UNCHANGED <<now, disk, probe, resPending, refVars, disVars>>

\* lines 95-116: the for loop reaches a match and skips it or starts on its links
ResScan ==
    /\ resPc = "scan"
    /\ resIdx <= Len(resData)
    /\ IF NeedsResolution(resData[resIdx], now)
       THEN /\ resPc' = "try"
            /\ resCand' = 1
            /\ UNCHANGED resIdx
       ELSE /\ resIdx' = resIdx + 1
            /\ UNCHANGED <<resPc, resCand>>
    /\ UNCHANGED <<now, disk, probe, resData, resUpdated, resLoaded, resCalls,
                   resWrites, resTouched, resSaw, resPending, refVars, disVars>>

\* lines 58-72 and 119-131: one load of one link, and, when get_working_m3u8
\* returns, the update of the match
ResTry ==
    /\ resPc = "try"
    /\ \E out \in Outcomes :
         LET match == resData[resIdx]
             link  == match.stream_links[resCand]
             it    == GwmIteration(match.stream_links, resCand, out)
             new   == ResAssign(match, it.ret, now)
         IN  /\ resCalls' = Append(resCalls,
                                   [rec |-> resIdx, link |-> link, out |-> out])
             /\ IF it.returns
                THEN /\ resData' = [resData EXCEPT ![resIdx] = new]
                     /\ resUpdated' = IF Truthy(it.ret.m3u8_url)
                                      THEN resUpdated + 1 ELSE resUpdated
                     /\ resTouched' = IF Truthy(it.ret.m3u8_url)
                                      THEN resTouched \cup {resIdx} ELSE resTouched
                     /\ resIdx' = resIdx + 1
                     /\ resCand' = 1
                     /\ resPc' = "scan"
                ELSE /\ resCand' = it.next
                     /\ UNCHANGED <<resData, resUpdated, resTouched, resIdx, resPc>>
    /\ UNCHANGED <<now, disk, probe, resLoaded, resWrites, resSaw, resPending,
                   refVars, disVars>>

\* lines 133-135, and line 19 of save_matches: after the loop, when
\* a match was updated, open(filename, 'w') empties the file and the
\* first writes of json.dump reach it
ResSave ==
    /\ resPc = "scan"
    /\ resIdx > Len(resData)
    /\ IF ResShouldSave(resUpdated)
       THEN /\ file' = <<>>
            /\ fileState' \in PartialStates
            /\ resPc' = "write"
       ELSE /\ resPc' = "done"
            /\ UNCHANGED disk
    /\ UNCHANGED <<now, probe, resData, resIdx, resCand, resUpdated, resLoaded,
                   resCalls, resWrites, resTouched, resSaw, resPending,
                   refVars, disVars>>

\* line 20 of save_matches: json.dump ends, the file holds the list
ResWrite ==
    /\ resPc = "write"
    /\ file' = resData
    /\ fileState' = "json"
    /\ resWrites' = Append(resWrites, resData)
    /\ resPc' = "done"
    /\ UNCHANGED <<now, probe, resData, resIdx, resCand, resUpdated, resLoaded,
                   resCalls, resTouched, resSaw, resPending, refVars, disVars>>

\* line 19 of save_matches when the disk fails: open raises OSError, the
\* file is as it was
ResOpenFails ==
    /\ resPc = "scan"
    /\ resIdx > Len(resData)
    /\ ResShouldSave(resUpdated)
    /\ resPc' = "savefailed"
    /\ UNCHANGED disk
    /\ UNCHANGED <<now, probe, resData, resIdx, resCand, resUpdated, resLoaded,
                   resCalls, resWrites, resTouched, resSaw, resPending,
                   refVars, disVars>>

\* line 20 of save_matches when the disk fails: a write raises OSError, the
\* file keeps the beginning of the text
ResWriteFails ==
    /\ resPc = "write"
    /\ resPc' = "savefailed"
    /\ UNCHANGED disk
    /\ UNCHANGED <<now, probe, resData, resIdx, resCand, resUpdated, resLoaded,
                   resCalls, resWrites, resTouched, resSaw, resPending,
                   refVars, disVars>>

\* monitor_and_update, lines 157-165: update_match_m3u8 has returned and its
\* locals are gone; the loop sleeps
ResSleep ==
    /\ resPc = "done"
    /\ resPc' = "sleep"
    /\ resData' = <<>>
    /\ resIdx' = 1
    /\ resCand' = 1
    /\ resUpdated' = 0
    /\ resLoaded' = <<>>
    /\ resCalls' = <<>>
    /\ resWrites' = <<>>
    /\ resTouched' = {}
    /\ resSaw' = "none"
    /\ resPending' = None
    /\ UNCHANGED <<now, disk, probe, refVars, disVars>>

\* monitor_and_update without the except clause: the exception leaves the
\* while loop
ResExceptExits ==
    /\ resPc \in {"failed", "savefailed"}
    /\ resPc' = "exited"
    /\ resPending' = IF resPc = "savefailed" THEN Some(resData) ELSE None
    /\ resData' = <<>>
    /\ resIdx' = 1
    /\ resCand' = 1
    /\ resUpdated' = 0
    /\ resLoaded' = <<>>
    /\ resCalls' = <<>>
    /\ resWrites' = <<>>
    /\ resTouched' = {}
    /\ resSaw' = "none"
    /\ UNCHANGED <<now, disk, probe, refVars, disVars>>

\* monitor_and_update, lines 167-171: an exception left update_match_m3u8;
\* the except clause prints it and sleeps 60 seconds, then the while loop
\* goes round.  The locals of update_match_m3u8 are gone.
ResExcept ==
    /\ resPc \in {"failed", "savefailed"}
    /\ resPc' = "sleep"
    /\ resPending' = IF resPc = "savefailed" THEN Some(resData) ELSE None
    /\ resData' = <<>>
    /\ resIdx' = 1
    /\ resCand' = 1
    /\ resUpdated' = 0
    /\ resLoaded' = <<>>
    /\ resCalls' = <<>>
    /\ resWrites' = <<>>
    /\ resTouched' = {}
    /\ resSaw' = "none"
    /\ UNCHANGED <<now, disk, probe, refVars, disVars>>

----------------------------------------------------------------------------
(* refresh_m3u8.py *)

\* bool(s) of a value that is None or a URL string
StrTruthy(opt) == opt # None /\ \A u \in opt : ~(u.path = "" /\ u.query = <<>>)

\* MatchesMonitor.get_m3u8_url_string: the URL of the m3u8_url field
get_m3u8_url_string(m3u8_data) ==
    IF ~Truthy(m3u8_data) THEN None ELSE The(m3u8_data).m3u8

\* urllib.parse.parse_qs(query)[key]: the values of the pairs named key, in
\* order; pairs with a blank value are dropped (keep_blank_values=False)
parse_qs(query, key) == SelectSeq(query, LAMBDA p : p.k = key /\ p.v # <<>>)

\* the text of a URL before its '?' that opens a bracket in the host and does
\* not close it, as in http://[h/e.m3u8
BracketPath == "//[h/e.m3u8"

\* urllib.parse.urlparse(url) raises ValueError (Invalid IPv6 URL) when the
\* brackets of the host do not pair
urlparse_raises(url) == url.path = BracketPath

\* MatchesMonitor.get_expiry_timestamp, lines 76-79: TRUE when the call is
\* left by the exception of urlparse, which is outside the try of line 84
get_expiry_raises(m3u8_url_string) ==
    /\ StrTruthy(m3u8_url_string)
    /\ urlparse_raises(The(m3u8_url_string))

\* MatchesMonitor.get_expiry_timestamp, the value returned when it returns
get_expiry_timestamp(m3u8_url_string) ==
    IF ~StrTruthy(m3u8_url_string) THEN None
    ELSE LET params == parse_qs(The(m3u8_url_string).query, "expires")
         IN  IF params # <<>> THEN PyInt(params[1].v) ELSE None

\* MatchesMonitor.is_expiring_soon, at time.time() = t
is_expiring_soon(m3u8_url_string, minutes, t) ==
    LET expiry_timestamp == get_expiry_timestamp(m3u8_url_string)
    IN  IF expiry_timestamp = None \/ The(expiry_timestamp) = 0 THEN FALSE
        ELSE LET time_until_expiry == The(expiry_timestamp) - t
                 threshold_seconds == minutes * SecondsPerMinute
             IN  time_until_expiry <= threshold_seconds

\* check_and_refresh_matches refreshing every match that has a URL
RefChecksAnyUrl(match, minutes, t) ==
    LET m3u8_url_string == get_m3u8_url_string(match.m3u8_url)
    IN  /\ Truthy(match.m3u8_url)
        /\ StrTruthy(m3u8_url_string)

\* check_and_refresh_matches, lines 185-238: TRUE when the for loop calls
\* refresh_match_m3u8 on the match
RefChecks(match, minutes, t) ==
    LET m3u8_url_string == get_m3u8_url_string(match.m3u8_url)
    IN  /\ Truthy(match.m3u8_url)
        /\ StrTruthy(m3u8_url_string)
        /\ get_expiry_timestamp(m3u8_url_string) # None
        /\ is_expiring_soon(m3u8_url_string, minutes, t)

\* refresh_match_m3u8, lines 125-129: TRUE when it goes on to load the page
RefHasHandle(match) == match.working_embed_url # None

\* refresh_match_m3u8 dropping the handle when the load raised
refresh_match_m3u8_drops(match, out, t) ==
    LET result == Some(scrape_m3u8(out))
    IN  IF out.kind # "error" /\ Truthy(result)
        THEN [match |-> [match EXCEPT !.m3u8_url = result,
                                      !.m3u8_updated_at = Some(t)],
              ok |-> TRUE]
        ELSE [match |-> [match EXCEPT !.working_embed_url = None], ok |-> FALSE]

\* refresh_match_m3u8, lines 133-158, the load having outcome out at time t:
\* the match afterwards and the value returned
refresh_match_m3u8(match, out, t) ==
    LET result == Some(scrape_m3u8(out))
    IN  IF out.kind # "error" /\ Truthy(result)
        THEN [match |-> [match EXCEPT !.m3u8_url = result,
                                      !.m3u8_updated_at = Some(t)],
              ok |-> TRUE]
        ELSE [match |-> match, ok |-> FALSE]

\* line 241: whether the tick saves
RefShouldSave(refreshed_count) == refreshed_count > 0

\* vocabulary of refDue: the locator's expiry instant, None when it has none
ExpiresAt(match) == get_expiry_timestamp(get_m3u8_url_string(match.m3u8_url))

\* expiresAt - t <= threshold
DueAt(match, minutes, t) ==
    /\ ExpiresAt(match) # None
    /\ The(ExpiresAt(match)) - t <= minutes * SecondsPerMinute

\* MatchesMonitor.load_matches: [ok, data]; ok is FALSE, and self.data is
\* left alone, when FileNotFoundError or JSONDecodeError is caught
ref_load_matches(f, st, data) ==
    IF st = "json" THEN [ok |-> TRUE, data |-> f] ELSE [ok |-> FALSE, data |-> data]

\* check_and_refresh_matches, lines 167-182: load; a failed load returns at
\* once; an exception load_matches does not catch leaves the function
RefLoad ==
    /\ refPc = "sleep"
    /\ LET r == ref_load_matches(file, fileState, refData)
       IN  /\ refData' = r.data
           /\ refLoaded' = r.data
           /\ refPc' = IF LoadRaises(fileState) THEN "failed"
                       ELSE IF r.ok THEN "scan" ELSE "done"
    /\ refSaw' = fileState
    /\ refIdx' = 1
    /\ refRefreshed' = 0
    /\ refCalls' = <<>>
    /\ refWrites' = <<>>
    /\ refTouched' = {}
    /\ refDue' = {}
    /\ UNCHANGED <<now, disk, probe, resVars, disVars>>

\* lines 185-212: TRUE when get_expiry_timestamp raises at line 200, or the
\* for loop reaches line 212 with an expiry that datetime.fromtimestamp
\* rejects; the exception leaves check_and_refresh_matches
RefScanRaises(match) ==
    LET m3u8_url_string == get_m3u8_url_string(match.m3u8_url)
        expiry_timestamp == get_expiry_timestamp(m3u8_url_string)
    IN  /\ Truthy(match.m3u8_url)
        /\ StrTruthy(m3u8_url_string)
        /\ \/ get_expiry_raises(m3u8_url_string)
           \/ /\ expiry_timestamp # None
              /\ fromtimestamp_raises(The(expiry_timestamp))

\* lines 184-238 and 125-131: the for loop reaches a match and skips it,
\* raises on its expiry, or starts the load of its working_embed_url
RefScan ==
    /\ refPc = "scan"
    /\ refIdx <= Len(refData)
    /\ LET match == refData[refIdx]
       IN  /\ refDue' = IF DueAt(match, ThresholdMinutes, now)
                        THEN refDue \cup {refIdx} ELSE refDue
           /\ IF RefScanRaises(match)
              THEN /\ refPc' = "failed"
                   /\ UNCHANGED refIdx
              ELSE IF RefChecks(match, ThresholdMinutes, now) /\ RefHasHandle(match)
              THEN /\ refPc' = "call"
                   /\ UNCHANGED refIdx
              ELSE /\ refIdx' = refIdx + 1
                   /\ UNCHANGED refPc
    /\ UNCHANGED <<now, disk, probe, refData, refRefreshed, refLoaded, refCalls,
                   refWrites, refTouched, refSaw, resVars, disVars>>

\* lines 133-158 and 234-235: the load of the working_embed_url ends
RefCall ==
    /\ refPc = "call"
    /\ \E out \in Outcomes :
         LET match == refData[refIdx]
             r     == refresh_match_m3u8(match, out, now)
         IN  /\ refCalls' = Append(refCalls,
                                   [rec |-> refIdx,
                                    link |-> The(match.working_embed_url),
                                    out |-> out])
             /\ refData' = [refData EXCEPT ![refIdx] = r.match]
             /\ refRefreshed' = IF r.ok THEN refRefreshed + 1 ELSE refRefreshed
             /\ refTouched' = IF r.ok THEN refTouched \cup {refIdx} ELSE refTouched
    /\ refIdx' = refIdx + 1
    /\ refPc' = "scan"
    /\ UNCHANGED <<now, disk, probe, refLoaded, refWrites, refDue, refSaw,
                   resVars, disVars>>

\* lines 240-242, and line 36 of save_matches: after the loop, when
\* a match was refreshed, open(self.json_file, 'w') empties the file and the
\* first writes of json.dump reach it
RefSave ==
    /\ refPc = "scan"
    /\ refIdx > Len(refData)
    /\ IF RefShouldSave(refRefreshed)
       THEN /\ file' = <<>>
            /\ fileState' \in PartialStates
            /\ refPc' = "write"
       ELSE /\ refPc' = "done"
            /\ UNCHANGED disk
    /\ UNCHANGED <<now, probe, refData, refIdx, refRefreshed, refLoaded,
                   refCalls, refWrites, refTouched, refDue, refSaw,
                   resVars, disVars>>

\* line 37 of save_matches: json.dump ends, the file holds the list
RefWrite ==
    /\ refPc = "write"
    /\ file' = refData
    /\ fileState' = "json"
    /\ refWrites' = Append(refWrites, refData)
    /\ refPc' = "done"
    /\ UNCHANGED <<now, probe, refData, refIdx, refRefreshed, refLoaded,
                   refCalls, refTouched, refDue, refSaw, resVars, disVars>>

\* line 36 of save_matches when the disk fails: open raises OSError, the
\* file is as it was
RefOpenFails ==
    /\ refPc = "scan"
    /\ refIdx > Len(refData)
    /\ RefShouldSave(refRefreshed)
    /\ refPc' = "savefailed"
    /\ UNCHANGED disk
    /\ UNCHANGED <<now, probe, refData, refIdx, refRefreshed, refLoaded,
                   refCalls, refWrites, refTouched, refDue, refSaw,
                   resVars, disVars>>

\* line 37 of save_matches when the disk fails: a write raises OSError, the
\* file keeps the beginning of the text
RefWriteFails ==
    /\ refPc = "write"
    /\ refPc' = "savefailed"
    /\ UNCHANGED disk
    /\ UNCHANGED <<now, probe, refData, refIdx, refRefreshed, refLoaded,
                   refCalls, refWrites, refTouched, refDue, refSaw,
                   resVars, disVars>>

\* MatchesMonitor.monitor, lines 280-286: check_and_refresh_matches has
\* returned; the loop sleeps.  self.data is not read again before the next
\* load_matches replaces it or fails, so it is dropped here.
RefSleep ==
    /\ refPc = "done"
    /\ refPc' = "sleep"
    /\ refData' = <<>>
    /\ refIdx' = 1
    /\ refRefreshed' = 0
    /\ refLoaded' = <<>>
    /\ refCalls' = <<>>
    /\ refWrites' = <<>>
    /\ refTouched' = {}
    /\ refDue' = {}
    /\ refSaw' = "none"
    /\ UNCHANGED <<now, disk, probe, resVars, disVars>>

\* MatchesMonitor.monitor, lines 275-286: an exception left
\* check_and_refresh_matches; the except clause prints it, and the loop
\* sleeps as after any tick
RefExcept ==
    /\ refPc \in {"failed", "savefailed"}
    /\ refPc' = "sleep"
    /\ refData' = <<>>
    /\ refIdx' = 1
    /\ refRefreshed' = 0
    /\ refLoaded' = <<>>
    /\ refCalls' = <<>>
    /\ refWrites' = <<>>
    /\ refTouched' = {}
    /\ refDue' = {}
    /\ refSaw' = "none"
    /\ UNCHANGED <<now, disk, probe, resVars, disVars>>

----------------------------------------------------------------------------
(* minutes30.py *)

\* load_matches of minutes30.py (lines 7-14), the same as that of 10minutes.py
dis_load_matches(f, st) == IF st = "json" THEN f ELSE <<>>

\* is_within_30_minutes taking a date it cannot parse for a match about to start
is_within_30_minutes_nodate(d, t) ==
    LET match_time == fromisoformat(d)
    IN  IF match_time = None THEN TRUE
        ELSE LET time_diff == The(match_time) - t
             IN  0 <= time_diff
                 /\ time_diff <= DiscoveryMinutes * SecondsPerMinute

\* is_within_30_minutes with the lower bound of is_within_10_minutes
is_within_30_minutes_started(d, t) ==
    LET match_time == fromisoformat(d)
    IN  IF match_time = None THEN FALSE
        ELSE LET time_diff == The(match_time) - t
             IN  0 - WindowMinutes * SecondsPerMinute <= time_diff
                 /\ time_diff <= DiscoveryMinutes * SecondsPerMinute

\* is_within_30_minutes, at wall-clock time t
is_within_30_minutes(d, t) ==
    LET match_time == fromisoformat(d)
    IN  IF match_time = None THEN FALSE
        ELSE LET time_diff == The(match_time) - t
             IN  0 <= time_diff
                 /\ time_diff <= DiscoveryMinutes * SecondsPerMinute

\* the lists get_match_links can return: [] when the page has no table of
\* links or the request fails (every exception is caught, get_link.py 48-50)
LinkLists == {<<>>, <<"A">>, <<"B", "C">>}

\* the skip tests of update_match_links (lines 71-79): TRUE when the match
\* goes on to get_match_links
NeedsLinks(match, t) ==
    /\ match.stream_links = <<>>
    /\ is_within_30_minutes(match.dateTime, t)

\* lines 87-91 of update_match_links: the match after get_match_links
\* returned links at time t
DisAssign(match, links, t) ==
    IF links # <<>>
    THEN [match EXCEPT !.stream_links = links, !.links_updated_at = Some(t)]
    ELSE match

\* line 101: whether the tick saves
DisShouldSave(updated_count) == updated_count > 0

\* update_match_links, lines 55-63: load; an empty list returns at once; an
\* exception load_matches does not catch leaves update_match_links
DisLoad ==
    /\ disPc = "sleep"
    /\ LET matches == dis_load_matches(file, fileState)
       IN  IF LoadRaises(fileState)
           THEN /\ disPc' = "failed"
                /\ UNCHANGED <<disData, disLoaded>>
           ELSE /\ disData' = matches
                /\ disLoaded' = matches
                /\ disPc' = IF matches = <<>> THEN "done" ELSE "scan"
    /\ disSaw' = fileState
    /\ disIdx' = 1
    /\ disUpdated' = 0
    /\ disCalls' = <<>>
    /\ disWrites' = <<>>
    /\ disTouched' = {}
    /\ UNCHANGED <<now, disk, probe, resVars, refVars>>

\* lines 65-98: the for loop reaches a match and skips it, or calls
\* get_match_links (a blocking request) and records the links it returned
DisScan ==
    /\ disPc = "scan"
    /\ disIdx <= Len(disData)
    /\ IF NeedsLinks(disData[disIdx], now)
       THEN \E links \in LinkLists :
              /\ disCalls' = Append(disCalls, [rec |-> disIdx, links |-> links])
              /\ disData' = [disData EXCEPT
                               ![disIdx] = DisAssign(disData[disIdx], links, now)]
              /\ disUpdated' = IF links # <<>> THEN disUpdated + 1 ELSE disUpdated
              /\ disTouched' = IF links # <<>> THEN disTouched \cup {disIdx}
                               ELSE disTouched
       ELSE UNCHANGED <<disCalls, disData, disUpdated, disTouched>>
    /\ disIdx' = disIdx + 1
    /\ UNCHANGED <<now, disk, probe, disPc, disLoaded, disWrites, disSaw,
                   resVars, refVars>>

\* lines 100-102, and line 19 of save_matches: after the loop, when a match
\* was updated, open(filename, 'w') empties the file and the first writes of
\* json.dump reach it
DisSave ==
    /\ disPc = "scan"
    /\ disIdx > Len(disData)
    /\ IF DisShouldSave(disUpdated)
       THEN /\ file' = <<>>
            /\ fileState' \in PartialStates
            /\ disPc' = "write"
       ELSE /\ disPc' = "done"
            /\ UNCHANGED disk
    /\ UNCHANGED <<now, probe, disData, disIdx, disUpdated, disLoaded, disCalls,
                   disWrites, disTouched, disSaw, resVars, refVars>>

\* update_match_links saving only the matches that have links
DisWriteLinked ==
    /\ disPc = "write"
    /\ LET linked == SelectSeq(disData, LAMBDA m : m.stream_links # <<>>)
       IN  /\ file' = linked
           /\ disWrites' = Append(disWrites, linked)
    /\ fileState' = "json"
    /\ disPc' = "done"
    /\ UNCHANGED <<now, probe, disData, disIdx, disUpdated, disLoaded, disCalls,
                   disTouched, disSaw, resVars, refVars>>

\* line 20 of save_matches: json.dump ends, the file holds the list
DisWrite ==
    /\ disPc = "write"
    /\ file' = disData
    /\ fileState' = "json"
    /\ disWrites' = Append(disWrites, disData)
    /\ disPc' = "done"
    /\ UNCHANGED <<now, probe, disData, disIdx, disUpdated, disLoaded, disCalls,
                   disTouched, disSaw, resVars, refVars>>

\* monitor_and_update, lines 125-131: update_match_links has returned and its
\* locals are gone; the loop sleeps
DisSleep ==
    /\ disPc = "done"
    /\ disPc' = "sleep"
    /\ disData' = <<>>
    /\ disIdx' = 1
    /\ disUpdated' = 0
    /\ disLoaded' = <<>>
    /\ disCalls' = <<>>
    /\ disWrites' = <<>>
    /\ disTouched' = {}
    /\ disSaw' = "none"
    /\ UNCHANGED <<now, disk, probe, resVars, refVars>>

\* monitor_and_update, lines 133-137: an exception left update_match_links;
\* the except clause prints it and sleeps 60 seconds, then the while loop
\* goes round
DisExcept ==
    /\ disPc = "failed"
    /\ disPc' = "sleep"
    /\ disData' = <<>>
    /\ disIdx' = 1
    /\ disUpdated' = 0
    /\ disLoaded' = <<>>
    /\ disCalls' = <<>>
    /\ disWrites' = <<>>
    /\ disTouched' = {}
    /\ disSaw' = "none"
    /\ UNCHANGED <<now, disk, probe, resVars, refVars>>

----------------------------------------------------------------------------
(* get_match.py *)

\* match_data of parse_matches_from_html (lines 102-110) for the matches of
\* the listing: no stream_links and no m3u8 field yet.  With filter_date
\* set, only matches whose dateTime parses are returned (lines 117-127).
ScrapedMatches ==
    {Match(m.doc_id, m.dateTime, <<>>) : m \in {x \in InitMatches : x.dateTime.iso}}

\* the lists parse_matches_from_html can return
Listings == {s \in SeqsUpTo(ScrapedMatches, MaxRecs) : Distinct(s)}

\* scrape_matches, lines 151-198: the listing is downloaded and parsed, and
\* save_to_json writes the parsed list over the file (taken as one step)
ScrapeMatches ==
    /\ \E matches \in Listings :
         /\ file' = matches
         /\ fileState' = "json"
    /\ UNCHANGED <<now, probe, resVars, refVars, disVars>>

----------------------------------------------------------------------------
(* The system *)

\* time passes
Advance ==
    /\ now < T0 + MaxClockSteps * ClockStep
    /\ now' = now + ClockStep
    /\ UNCHANGED <<disk, probe, resVars, refVars, disVars>>

\* no function is being applied on its own
NoProbe == [fn |-> "none"]

\* the file before the loops start: a catalog, or no file yet
InitDisk ==
    \/ file \in InitCatalogs /\ fileState = "json"
    \/ file = <<>> /\ fileState = "missing"

\* the loops before their first tick
LoopsInit ==
    /\ resPc = "sleep"
    /\ resData = <<>>
    /\ resIdx = 1
    /\ resCand = 1
    /\ resUpdated = 0
    /\ resLoaded = <<>>
    /\ resCalls = <<>>
    /\ resWrites = <<>>
    /\ resTouched = {}
    /\ resSaw = "none"
    /\ resPending = None
    /\ refPc = "sleep"
    /\ refData = <<>>
    /\ refIdx = 1
    /\ refRefreshed = 0
    /\ refLoaded = <<>>
    /\ refCalls = <<>>
    /\ refWrites = <<>>
    /\ refTouched = {}
    /\ refDue = {}
    /\ refSaw = "none"
    /\ disPc = "sleep"
    /\ disData = <<>>
    /\ disIdx = 1
    /\ disUpdated = 0
    /\ disLoaded = <<>>
    /\ disCalls = <<>>
    /\ disWrites = <<>>
    /\ disTouched = {}
    /\ disSaw = "none"

Init ==
    /\ now = T0
    /\ InitDisk
    /\ probe = NoProbe
    /\ LoopsInit

Next ==
    \/ Advance
    \/ ResLoad
    \/ ResScan
    \/ ResTry
    \/ ResSave
    \/ ResWrite
    \/ ResSleep
    \/ ResExcept
    \/ RefLoad
    \/ RefScan
    \/ RefCall
    \/ RefSave
    \/ RefWrite
    \/ RefSleep
    \/ RefExcept

\* the two loops as they run: two processes, any interleaving of their
\* steps, on a disk that does not fail
Spec == Init /\ [][Next]_vars

\* a tick of one loop starts while the other loops sleep
ResLoadAlone == refPc = "sleep" /\ disPc = "sleep" /\ ResLoad
RefLoadAlone == resPc = "sleep" /\ disPc = "sleep" /\ RefLoad
DisLoadAlone == resPc = "sleep" /\ refPc = "sleep" /\ DisLoad

NextSeq ==
    \/ Advance
    \/ ResLoadAlone
    \/ ResScan
    \/ ResTry
    \/ ResSave
    \/ ResWrite
    \/ ResSleep
    \/ RefLoadAlone
    \/ RefScan
    \/ RefCall
    \/ RefSave
    \/ RefWrite
    \/ RefSleep
    \/ RefExcept

\* the two loops on disjoint schedules: ticks of different loops do not
\* overlap, and the disk does not fail
SpecSeq == Init /\ [][NextSeq]_vars

\* the listing scraper runs while both loops sleep
ScrapeAlone == resPc = "sleep" /\ refPc = "sleep" /\ ScrapeMatches

NextScr ==
    \/ NextSeq
    \/ ScrapeAlone

\* the two loops and the listing scraper on disjoint schedules
SpecScr == Init /\ [][NextScr]_vars

\* matches before the link updater has seen them, one of them with a date
\* that does not parse and one with a null date, and a match that has a link
\* and a date that does not parse
DiscMatches ==
    { Match("m4", Iso(T0 + 2 * ClockStep), <<>>),
      Match("m5", BadDate, <<>>),
      Match("m6", NullDate, <<>>),
      Match("m3", BadDate, <<"B">>) }

DiscCatalogs == {s \in SeqsUpTo(DiscMatches, MaxRecs) : Distinct(s)}

InitDisc ==
    /\ now = T0
    /\ \/ file \in DiscCatalogs /\ fileState = "json"
       \/ file = <<>> /\ fileState = "missing"
    /\ probe = NoProbe
    /\ LoopsInit

NextDisc ==
    \/ NextSeq
    \/ DisLoadAlone
    \/ DisScan
    \/ DisSave
    \/ DisWrite
    \/ DisSleep

\* the three loops on disjoint schedules, on a disk that does not fail
SpecDisc == InitDisc /\ [][NextDisc]_vars

\* the disk fails under a save
DiskFails ==
    \/ ResOpenFails
    \/ ResWriteFails
    \/ RefOpenFails
    \/ RefWriteFails

NextFail ==
    \/ NextSeq
    \/ ResExcept
    \/ DiskFails

\* disjoint schedules on a disk that can fail
SpecFail == Init /\ [][NextFail]_vars

\* the start with the catalog of one match that is in the resolution window
OneMatch == CHOOSE m \in InitMatches : m.doc_id = "m2"
InitOne == Init /\ file = <<OneMatch>>

\* the start with a catalog of two matches in the resolution window
TwoMatches ==
    <<CHOOSE m \in InitMatches : m.doc_id = "m1",
      CHOOSE m \in InitMatches : m.doc_id = "m2">>
InitTwo == Init /\ file = TwoMatches

\* the two processes, any interleaving of their steps, from that catalog
SpecPar == InitTwo /\ [][Next]_vars

\* the steps of each loop that the program takes by itself
ResStep ==
    ResLoad \/ ResScan \/ ResTry \/ ResSave \/ ResWrite \/ ResSleep \/ ResExcept
RefStep ==
    RefLoad \/ RefScan \/ RefCall \/ RefSave \/ RefWrite \/ RefSleep \/ RefExcept

NextLive ==
    \/ Next
    \/ DiskFails

(* The two processes on a disk that can fail, each process going on: a sleep
   ends, a page load ends (scrape_m3u8 waits at most 20 seconds for the
   response, page.goto raises after its timeout), open and json.dump return
   or raise. *)
SpecLive ==
    InitOne /\ [][NextLive]_vars /\ WF_vars(ResStep) /\ WF_vars(RefStep)

(* The two processes on a disk that does not fail, each process going on:
   asyncio.sleep(60) returns, a page load ends within its timeouts, and the
   while True of each loop starts the next tick. *)
SpecTick ==
    InitOne /\ [][Next]_vars /\ WF_vars(ResStep) /\ WF_vars(RefStep)

\* the start with a catalog of a match in the resolution window and a match
\* in the discovery window that has no links yet
LinklessMatches ==
    <<CHOOSE m \in InitMatches : m.doc_id = "m2",
      CHOOSE m \in InitMatches : m.doc_id = "m4">>
InitShare == Init /\ file = LinklessMatches

\* the steps of the discovery loop
DisStep ==
    DisLoad \/ DisScan \/ DisSave \/ DisWrite \/ DisSleep \/ DisExcept

NextShare ==
    \/ Advance
    \/ ResStep
    \/ DisStep

\* the resolution loop and the discovery loop as they run: two processes,
\* any interleaving of their steps, on a disk that does not fail
SpecShare == InitShare /\ [][NextShare]_vars

----------------------------------------------------------------------------
(* is_expiring_soon and the expiry test of the refresh tick, applied to one
   locator at one instant with one threshold *)

ExpiryUrl(digits) == Url("e.m3u8", <<Param("expires", digits)>>)

\* expires values: zero, before, at and after the instants of the model
ProbeExpiries ==
    {<<"0">>, <<"-", "6", "0">>, <<"9", "0", "0">>, <<"1", "2", "0", "0">>,
     <<"1", "5", "0", "0">>, <<"1", "8", "0", "0">>}

ProbeInstants == {T0 + k * ClockStep : k \in 0..MaxClockSteps}

\* expiry_threshold_minutes: none, the default, twice the default
ProbeMinutes == {0, ThresholdMinutes, 2 * ThresholdMinutes}

\* a match holding the locator and a working_embed_url
ProbeMatch(url) ==
    [Match("m1", Iso(T0), <<"A">>) EXCEPT
        !.m3u8_url = Some([m3u8 |-> Some(url), headers |-> Some(Headers)]),
        !.working_embed_url = Some("A"),
        !.m3u8_updated_at = Some(T0)]

InitExpiry ==
    /\ now = T0
    /\ file = <<>> /\ fileState = "missing"
    /\ LoopsInit
    /\ probe \in [fn : {"is_expiring_soon"}, digits : ProbeExpiries,
                   minutes : ProbeMinutes, t : ProbeInstants,
                   done : {FALSE}, soon : {FALSE}, refreshes : {FALSE}]

\* is_expiring_soon(url, minutes) at time t, and lines 185-234 of
\* check_and_refresh_matches on a match holding url: whether the tick calls
\* refresh_match_m3u8 and that call loads the page
CheckExpiry ==
    /\ probe.fn = "is_expiring_soon"
    /\ ~probe.done
    /\ LET url == ExpiryUrl(probe.digits)
           match == ProbeMatch(url)
       IN  probe' = [probe EXCEPT
                       !.done = TRUE,
                       !.soon = is_expiring_soon(Some(url), probe.minutes, probe.t),
                       !.refreshes = /\ ~RefScanRaises(match)
                                     /\ RefChecks(match, probe.minutes, probe.t)
                                     /\ RefHasHandle(match)]
    /\ UNCHANGED <<now, disk, resVars, refVars, disVars>>

SpecExpiry == InitExpiry /\ [][CheckExpiry]_vars

----------------------------------------------------------------------------
(* is_within_10_minutes and is_within_30_minutes applied to one dateTime
   value at one instant *)

\* scheduled starts
WindowStarts == {3 * T0 + k * ClockStep : k \in 0..MaxClockSteps}

\* scheduledStart - now: at, one second inside and one second outside each
\* bound of the two windows
WindowOffsets ==
    LET w == WindowMinutes * SecondsPerMinute
        d == DiscoveryMinutes * SecondsPerMinute
    IN  {0 - d - 1, 0 - d, 0 - w - 1, 0 - w, 0 - w + 1, 0 - 1, 0, 1,
         w - 1, w, w + 1, d - 1, d, d + 1}

WindowDates == {Iso(s) : s \in WindowStarts} \cup {BadDate, NullDate}

WindowInstants == {s - o : s \in WindowStarts, o \in WindowOffsets}

InitWindow ==
    /\ now = T0
    /\ file = <<>> /\ fileState = "missing"
    /\ LoopsInit
    /\ probe \in [fn : {"window"}, d : WindowDates, t : WindowInstants,
                   done : {FALSE}, in10 : {FALSE}, in30 : {FALSE}]

\* is_within_10_minutes(d) and is_within_30_minutes(d) at datetime.now() = t
CheckWindow ==
    /\ probe.fn = "window"
    /\ ~probe.done
    /\ probe' = [probe EXCEPT
                   !.done = TRUE,
                   !.in10 = is_within_10_minutes(probe.d, probe.t),
                   !.in30 = is_within_30_minutes(probe.d, probe.t)]
    /\ UNCHANGED <<now, disk, resVars, refVars, disVars>>

SpecWindow == InitWindow /\ [][CheckWindow]_vars

----------------------------------------------------------------------------
(* get_expiry_timestamp applied to one string *)

\* the text before the '?': nothing, a path, text that is no URL, a host with
\* an unpaired bracket
ParsePaths == {"", "e.m3u8", "garbage", BracketPath}

\* key=value pairs: expires holding an integer, a signed integer, letters, a
\* decimal fraction, nothing; and another key
ParseParams ==
    {Param("expires", <<"1", "8", "0", "0">>), Param("expires", <<"-", "6", "0">>),
     Param("expires", <<"a", "b", "c">>), Param("expires", <<"1", ".", "5">>),
     Param("expires", <<>>), Param("token", <<"x">>)}

ParseUrls == {Url(p, q) : p \in ParsePaths, q \in SeqsUpTo(ParseParams, MaxParams)}

InitParse ==
    /\ now = T0
    /\ file = <<>> /\ fileState = "missing"
    /\ LoopsInit
    /\ probe \in [fn : {"get_expiry_timestamp"}, url : ParseUrls,
                   done : {FALSE}, raised : {FALSE}, ret : {None}]

\* get_expiry_timestamp(url): whether it raised, and what it returned
CheckParse ==
    /\ probe.fn = "get_expiry_timestamp"
    /\ ~probe.done
    /\ LET raises == get_expiry_raises(Some(probe.url))
       IN  probe' = [probe EXCEPT
                       !.done = TRUE,
                       !.raised = raises,
                       !.ret = IF raises THEN None
                               ELSE get_expiry_timestamp(Some(probe.url))]
    /\ UNCHANGED <<now, disk, resVars, refVars, disVars>>

SpecParse == InitParse /\ [][CheckParse]_vars

----------------------------------------------------------------------------
(* m3u8.py: one call of scrape_m3u8, step by step *)

\* a URL without '.m3u8' in it
UrlPage == Url("page.html", <<>>)

\* '.m3u8' in response.url
HasM3u8(url) == url.path \in {"t.m3u8", "e.m3u8"}

\* the responses a page can receive: URL, resource type of the request,
\* status; the request of response number i carries headers number i
ResponseKinds ==
    [url : {UrlToken, UrlExp, UrlPage}, type : {"xhr", "fetch", "document"},
     status : {StatusOK, 404}]

Arrivals(n) ==
    {[i \in 1..n |-> [url |-> ks[i].url, type |-> ks[i].type,
                      status |-> ks[i].status, headers |-> i]] :
        ks \in [1..n -> ResponseKinds]}

Incoming == UNION {Arrivals(n) : n \in 0..MaxResponses}

\* asyncio futures
PendingFuture == [state |-> "pending", value |-> None]
CancelledFuture == [state |-> "cancelled", value |-> None]

\* the dict of lines 25-28
ResultOf(response) ==
    [m3u8 |-> Some(response.url), headers |-> Some(response.headers)]

\* the dict of line 38
TimeoutResult == [m3u8 |-> None, headers |-> None]

\* handle_response setting the result whether or not the future is done
handle_response_unguarded(future, response) ==
    IF /\ HasM3u8(response.url)
       /\ response.type = "xhr"
       /\ response.status = StatusOK
    THEN [state |-> "result", value |-> Some(ResultOf(response))]
    ELSE future

\* handle_response, lines 18-29: the future after the handler ran
handle_response(future, response) ==
    IF /\ HasM3u8(response.url)
       /\ response.type = "xhr"
       /\ response.status = StatusOK
       /\ future.state = "pending"
    THEN [state |-> "result", value |-> Some(ResultOf(response))]
    ELSE future

InitScrape ==
    /\ now = T0
    /\ file = <<>> /\ fileState = "missing"
    /\ LoopsInit
    /\ probe \in [fn : {"scrape_m3u8"}, pc : {"start"}, browser : {"none"},
                   future : {PendingFuture}, result : {None}, ret : {None},
                   incoming : Incoming, arrived : {<<>>},
                   sets : {0}, decided : {None}, seen : {0}]

\* lines 7-31: the browser is launched, the page opened, the future created
\* and the handler registered; or the launch raises
ScrLaunch ==
    /\ probe.fn = "scrape_m3u8"
    /\ probe.pc = "start"
    /\ \/ probe' = [probe EXCEPT !.pc = "goto", !.browser = "open"]
       \/ probe' = [probe EXCEPT !.pc = "raised"]
    /\ UNCHANGED <<now, disk, resVars, refVars, disVars>>

\* a response reaches the page while the browser is open: the handler runs
\* to its end (it awaits nothing).  sets counts the changes of the future's
\* result, decided is the first value the wait was decided with.
ScrResponse ==
    /\ probe.fn = "scrape_m3u8"
    /\ probe.pc \in {"goto", "wait", "close"}
    /\ probe.browser = "open"
    /\ probe.incoming # <<>>
    /\ LET response == Head(probe.incoming)
           future   == handle_response(probe.future, response)
       IN  probe' = [probe EXCEPT
                       !.incoming = Tail(probe.incoming),
                       !.arrived = Append(probe.arrived, response),
                       !.future = future,
                       !.sets = IF future # probe.future THEN probe.sets + 1
                                ELSE probe.sets,
                       !.decided = IF probe.decided = None
                                   THEN future.value ELSE probe.decided]
    /\ UNCHANGED <<now, disk, resVars, refVars, disVars>>

\* line 33: page.goto returns, or raises and the exception leaves
\* scrape_m3u8 through async with, which stops the browser
ScrGoto ==
    /\ probe.fn = "scrape_m3u8"
    /\ probe.pc = "goto"
    /\ \/ probe' = [probe EXCEPT !.pc = "wait"]
       \/ probe' = [probe EXCEPT !.pc = "raised", !.browser = "closed"]
    /\ UNCHANGED <<now, disk, resVars, refVars, disVars>>

\* line 36: wait_for returns the result of the future
ScrResolve ==
    /\ probe.fn = "scrape_m3u8"
    /\ probe.pc = "wait"
    /\ probe.future.state = "result"
    /\ probe' = [probe EXCEPT !.pc = "close",
                              !.result = probe.future.value,
                              !.seen = Len(probe.arrived)]
    /\ UNCHANGED <<now, disk, resVars, refVars, disVars>>

\* lines 36-38: 20 seconds pass with the future pending; wait_for cancels
\* the future and raises TimeoutError, which line 37 catches
ScrTimeout ==
    /\ probe.fn = "scrape_m3u8"
    /\ probe.pc = "wait"
    /\ probe.future.state = "pending"
    /\ probe' = [probe EXCEPT !.pc = "close",
                              !.future = CancelledFuture,
                              !.result = Some(TimeoutResult),
                              !.decided = Some(TimeoutResult),
                              !.seen = Len(probe.arrived)]
    /\ UNCHANGED <<now, disk, resVars, refVars, disVars>>

\* scrape_m3u8 returning the result and leaving the browser open
ScrReturnsOpen ==
    /\ probe.fn = "scrape_m3u8"
    /\ probe.pc = "close"
    /\ probe' = [probe EXCEPT !.pc = "returned", !.ret = probe.result]
    /\ UNCHANGED <<now, disk, resVars, refVars, disVars>>

\* lines 40-41: browser.close() ends and scrape_m3u8 returns result
ScrClose ==
    /\ probe.fn = "scrape_m3u8"
    /\ probe.pc = "close"
    /\ probe' = [probe EXCEPT !.pc = "returned", !.browser = "closed",
                              !.ret = probe.result]
    /\ UNCHANGED <<now, disk, resVars, refVars, disVars>>

NextScrape ==
    \/ ScrLaunch
    \/ ScrResponse
    \/ ScrGoto
    \/ ScrResolve
    \/ ScrTimeout
    \/ ScrClose

SpecScrape == InitScrape /\ [][NextScrape]_vars

----------------------------------------------------------------------------
(* load_matches and save_matches on the text of the file: json.dump with
   indent=2 and ensure_ascii=False, json.load.  A JSON value is null, a
   string, a list of values, or a dict, kept as the sequence of its
   key-value pairs in insertion order.  The text is a sequence of tokens;
   the characters inside a string are not taken apart (with
   ensure_ascii=False and the utf-8 encoding of open, json.dump writes them
   as they are). *)

JNull == [t |-> "null", s |-> "", items |-> <<>>]
JStr(s) == [t |-> "str", s |-> s, items |-> <<>>]
JList(items) == [t |-> "list", s |-> "", items |-> items]
JDict(pairs) == [t |-> "dict", s |-> "", items |-> pairs]
Pair(k, v) == [k |-> k, v |-> v]

Tok(x) == [tok |-> x, s |-> ""]
StrTok(s) == [tok |-> "str", s |-> s]

\* newline and indentation, written between the items when the text is
\* indented
Ws(pretty) == IF pretty THEN <<Tok("ws")>> ELSE <<>>

\* json.dump of None
DumpNone == <<Tok("null")>>

RECURSIVE DumpValue(_, _)
RECURSIVE DumpItems(_, _)
RECURSIVE DumpPairs(_, _)

\* json.dump of the items of a list, from the first, separated by commas
DumpItems(items, pretty) ==
    IF Len(items) = 1 THEN DumpValue(items[1], pretty)
    ELSE DumpValue(items[1], pretty) \o <<Tok(",")>> \o Ws(pretty)
             \o DumpItems(Tail(items), pretty)

\* json.dump of the pairs of a dict
DumpPairs(pairs, pretty) ==
    LET first == <<StrTok(pairs[1].k), Tok(":")>> \o DumpValue(pairs[1].v, pretty)
    IN  IF Len(pairs) = 1 THEN first
        ELSE first \o <<Tok(",")>> \o Ws(pretty) \o DumpPairs(Tail(pairs), pretty)

\* json.dump of a value; an empty list is [] and an empty dict {}
DumpValue(v, pretty) ==
    CASE v.t = "null" -> DumpNone
      [] v.t = "str"  -> <<StrTok(v.s)>>
      [] v.t = "list" ->
            IF v.items = <<>> THEN <<Tok("["), Tok("]")>>
            ELSE <<Tok("[")>> \o Ws(pretty) \o DumpItems(v.items, pretty)
                     \o Ws(pretty) \o <<Tok("]")>>
      [] v.t = "dict" ->
            IF v.items = <<>> THEN <<Tok("{"), Tok("}")>>
            ELSE <<Tok("{")>> \o Ws(pretty) \o DumpPairs(v.items, pretty)
                     \o Ws(pretty) \o <<Tok("}")>>

\* the decoder passing over whitespace
SkipWs(text, p) == IF p <= Len(text) /\ text[p].tok = "ws" THEN p + 1 ELSE p

\* a dict after d[k] = v: the value of an existing key is replaced
SetKey(pairs, k, v) ==
    IF \E i \in 1..Len(pairs) : pairs[i].k = k
    THEN [i \in 1..Len(pairs) |-> IF pairs[i].k = k THEN Pair(k, v) ELSE pairs[i]]
    ELSE Append(pairs, Pair(k, v))

RECURSIVE ParseValue(_, _)
RECURSIVE ParseItems(_, _, _)
RECURSIVE ParsePairs(_, _, _)

\* the decoder inside a list, at an item
ParseItems(text, p, acc) ==
    LET r == ParseValue(text, p)
        q == SkipWs(text, r.next)
        items == Append(acc, r.v)
    IN  IF text[q].tok = "," THEN ParseItems(text, SkipWs(text, q + 1), items)
        ELSE [v |-> JList(items), next |-> q + 1]

\* the decoder inside a dict, at a key
ParsePairs(text, p, acc) ==
    LET r == ParseValue(text, p + 2)
        q == SkipWs(text, r.next)
        pairs == SetKey(acc, text[p].s, r.v)
    IN  IF text[q].tok = "," THEN ParsePairs(text, SkipWs(text, q + 1), pairs)
        ELSE [v |-> JDict(pairs), next |-> q + 1]

\* the decoder at a value: the value and the position after it
ParseValue(text, p) ==
    CASE text[p].tok = "null" -> [v |-> JNull, next |-> p + 1]
      [] text[p].tok = "str"  -> [v |-> JStr(text[p].s), next |-> p + 1]
      [] text[p].tok = "["    ->
            LET q == SkipWs(text, p + 1)
            IN  IF text[q].tok = "]" THEN [v |-> JList(<<>>), next |-> q + 1]
                ELSE ParseItems(text, q, <<>>)
      [] text[p].tok = "{"    ->
            LET q == SkipWs(text, p + 1)
            IN  IF text[q].tok = "}" THEN [v |-> JDict(<<>>), next |-> q + 1]
                ELSE ParsePairs(text, q, <<>>)

\* a file: no file, or its text
NoFile == [exists |-> FALSE, text |-> <<>>]
FileOf(text) == [exists |-> TRUE, text |-> text]

\* load_matches on a file that is missing or holds a complete JSON text: []
\* for FileNotFoundError, else what json.load returns
load_matches(f) ==
    IF f.exists THEN ParseValue(f.text, 1).v.items ELSE <<>>

\* save_matches leaving out of each match the keys whose value is None
save_matches_skipnone(matches) ==
    FileOf(DumpValue(
        JList([i \in 1..Len(matches) |->
                 JDict(SelectSeq(matches[i].items, LAMBDA p : p.v # JNull))]),
        TRUE))

\* save_matches(matches): the file after json.dump(matches, f, indent=2)
save_matches(matches) == FileOf(DumpValue(JList(matches), TRUE))

----------------------------------------------------------------------------
(* save_matches(load_matches()) and a second load_matches, on one file *)

\* a locator as scrape_m3u8 returns it, and the one it returns on timeout
JLocator ==
    JDict(<<Pair("m3u8", JStr("https://h/t.m3u8?token=x")),
            Pair("headers", JDict(<<Pair("referer", JStr("https://h/"))>>))>>)
JNoLocator == JDict(<<Pair("m3u8", JNull), Pair("headers", JNull)>>)

\* matches as the scraper writes them (no optional field), with an empty
\* list of links, with links and a locator, with a null locator, with the
\* locator of a timeout, and with a name that is not ASCII
JsonMatches ==
    { JDict(<<Pair("doc_id", JStr("a-vs-b")), Pair("dateTime", JStr("2026-01-12T19:45:00.000Z"))>>),
      JDict(<<Pair("doc_id", JStr("c-vs-d")), Pair("stream_links", JList(<<>>))>>),
      JDict(<<Pair("doc_id", JStr("e-vs-f")),
              Pair("stream_links", JList(<<JStr("A"), JStr("B")>>)),
              Pair("m3u8_url", JLocator),
              Pair("working_embed_url", JStr("A")),
              Pair("m3u8_updated_at", JStr("2026-01-12T19:40:00"))>>),
      JDict(<<Pair("doc_id", JStr("g-vs-h")), Pair("m3u8_url", JNull)>>),
      JDict(<<Pair("doc_id", JStr("i-vs-j")),
              Pair("stream_links", JList(<<JStr("A")>>)),
              Pair("m3u8_url", JNoLocator)>>),
      JDict(<<Pair("doc_id", JStr("atletico-vs-k")), Pair("homeTeam", JStr("Atlético"))>>) }

\* the files a load can find complete: none, or a list of matches written
\* with indentation (save_matches) or without
StoreFiles ==
    {NoFile} \cup {FileOf(DumpValue(JList(c), pretty)) :
                      c \in SeqsUpTo(JsonMatches, MaxRecs), pretty \in BOOLEAN}

InitStore ==
    /\ now = T0
    /\ file = <<>> /\ fileState = "missing"
    /\ LoopsInit
    /\ probe \in [fn : {"store"}, stage : {"start"}, file : StoreFiles,
                   loaded : {<<>>}, saved : {NoFile}, reloaded : {<<>>}]

\* matches = load_matches()
StoreLoad ==
    /\ probe.fn = "store"
    /\ probe.stage = "start"
    /\ probe' = [probe EXCEPT !.stage = "loaded",
                              !.loaded = load_matches(probe.file)]
    /\ UNCHANGED <<now, disk, resVars, refVars, disVars>>

\* save_matches(matches)
StoreSave ==
    /\ probe.fn = "store"
    /\ probe.stage = "loaded"
    /\ probe' = [probe EXCEPT !.stage = "saved",
                              !.saved = save_matches(probe.loaded)]
    /\ UNCHANGED <<now, disk, resVars, refVars, disVars>>

\* load_matches() again
StoreReload ==
    /\ probe.fn = "store"
    /\ probe.stage = "saved"
    /\ probe' = [probe EXCEPT !.stage = "reloaded",
                              !.reloaded = load_matches(probe.saved)]
    /\ UNCHANGED <<now, disk, resVars, refVars, disVars>>

NextStore ==
    \/ StoreLoad
    \/ StoreSave
    \/ StoreReload

SpecStore == InitStore /\ [][NextStore]_vars

----------------------------------------------------------------------------
(* get_match.py: generate_doc_id applied to one pair of team names *)

\* Characters of a team name: letters, digits, the underscore (the \w of re),
\* the space, the hyphen; every other character is punctuation
UpperCase == {"A", "C"}
LowerCase == {"a", "b", "c", "o", "s", "v", "u", "n", "k", "w"}
WordChars == UpperCase \cup LowerCase \cup Digits \cup {"_"}

\* str.lower on one character
lower(c) ==
    CASE c = "A" -> "a"
      [] c = "C" -> "c"
      [] OTHER -> c

\* f"{home_team} vs {away_team}".lower()
match_title(home_team, away_team) ==
    LET title == home_team \o <<" ", "v", "s", " ">> \o away_team
    IN  [i \in 1..Len(title) |-> lower(title[i])]

\* re.sub(r'[^\w\s-]', '', doc_id): every character that is not a word
\* character, a space or a hyphen is deleted
sub_special(doc_id) ==
    SelectSeq(doc_id, LAMBDA c : c \in WordChars \/ c = " " \/ c = "-")

\* re.sub(r'[-\s]+', '-', doc_id): every run of hyphens and spaces becomes one
\* hyphen
RECURSIVE sub_runs(_)
sub_runs(doc_id) ==
    IF doc_id = <<>> THEN <<>>
    ELSE LET c == Head(doc_id)
             rest == sub_runs(Tail(doc_id))
         IN  IF c \in {"-", " "}
             THEN IF rest # <<>> /\ Head(rest) = "-" THEN rest ELSE <<"-">> \o rest
             ELSE <<c>> \o rest

\* str.strip('-')
RECURSIVE strip_hyphens(_)
strip_hyphens(doc_id) ==
    IF doc_id = <<>> THEN <<>>
    ELSE IF Head(doc_id) = "-" THEN strip_hyphens(Tail(doc_id))
    ELSE IF doc_id[Len(doc_id)] = "-"
         THEN strip_hyphens(SubSeq(doc_id, 1, Len(doc_id) - 1))
    ELSE doc_id

Unknown == <<"u", "n", "k", "n", "o", "w", "n">>

generate_doc_id(home_team, away_team) ==
    IF home_team = <<>> \/ away_team = <<>> THEN Unknown
    ELSE strip_hyphens(sub_runs(sub_special(match_title(home_team, away_team))))

\* Team names as the listing gives them: plain, with capitals, with inner
\* punctuation, with an underscore, with spaces and hyphens at the ends and in
\* runs, made of punctuation only, empty
TeamNames ==
    {<<"a", "b">>, <<"A", "C">>, <<"A", ".", "C">>, <<"o", "'", "b">>,
     <<"a", "_", "b">>, <<"a", " ", "b">>, <<"a", " ", " ", "b">>,
     <<"a", " ", "-", " ", "b">>, <<"s", ".", " ", "b">>, <<"-", "a">>,
     <<"b", " ">>, <<".">>, <<"7">>, <<>>}

InitDocId ==
    /\ now = T0
    /\ file = <<>> /\ fileState = "missing"
    /\ LoopsInit
    /\ probe \in [fn : {"generate_doc_id"}, home_team : TeamNames,
                   away_team : TeamNames, done : {FALSE}, ret : {<<>>},
                   again : {<<>>}]

\* generate_doc_id(home_team, away_team), called twice on the same pair
CheckDocId ==
    /\ probe.fn = "generate_doc_id"
    /\ ~probe.done
    /\ probe' = [probe EXCEPT
                   !.done = TRUE,
                   !.ret = generate_doc_id(probe.home_team, probe.away_team),
                   !.again = generate_doc_id(probe.home_team, probe.away_team)]
    /\ UNCHANGED <<now, disk, resVars, refVars, disVars>>

SpecDocId == InitDocId /\ [][CheckDocId]_vars

----------------------------------------------------------------------------
(* Vocabulary of the properties *)

\* the loads of this tick made for match number i, in order
CallsOf(calls, i) == SelectSeq(calls, LAMBDA c : c.rec = i)

\* a load that timed out or raised
Failed(c) == c.out.kind \in {"timeout", "error"}

\* a load that observed a manifest URL
Yielded(c) == c.out.kind = "ok"

\* the ManifestLocator a load yields: URL plus the request's headers
LocatorOf(c) == [m3u8 |-> Some(c.out.url), headers |-> Some(Headers)]

\* get_working_m3u8 has returned for match number i in this resolution tick
ResAttempted(i) ==
    /\ CallsOf(resCalls, i) # <<>>
    /\ (resPc = "done" \/ resIdx > i)

\* the match holds no locator, no stable handle and no resolution time
Unresolved(match) ==
    /\ match.m3u8_url = None
    /\ match.working_embed_url = None
    /\ match.m3u8_updated_at = None

----------------------------------------------------------------------------
(* C1: get_working_m3u8 returns the locator and the source URL of the first
   candidate, in list order, whose load yields a manifest URL; a candidate
   whose load times out or raises is skipped.  Stated on a finished attempt:
   a match that was assigned a result holds the locator of a load that
   yielded one, its handle is the link of that load, and every load before
   it failed. *)
C1_FirstYieldingCandidate ==
    \A i \in 1..Len(resData) :
        (ResAttempted(i) /\ i \in resTouched) =>
            LET cs   == CallsOf(resCalls, i)
                last == cs[Len(cs)]
            IN  /\ Yielded(last)
                /\ resData[i].m3u8_url = Some(LocatorOf(last))
                /\ resData[i].working_embed_url = Some(last.link)
                /\ \A k \in 1..(Len(cs) - 1) : Failed(cs[k])

(* C2: get_working_m3u8 loads the candidates strictly in list order, one at
   a time, and after it has returned a candidate's result it loads no later
   candidate: the loads made for a match are on its links 1, 2, ..., k in
   that order, the loads of one match are not interleaved with those of
   another, and the handle returned is the link of the last load made. *)
C2_LoadsInListOrder ==
    /\ \A j, k \in 1..Len(resCalls) : j < k => resCalls[j].rec <= resCalls[k].rec
    /\ \A i \in 1..Len(resData) :
        LET cs    == CallsOf(resCalls, i)
            links == resData[i].stream_links
        IN  /\ Len(cs) <= Len(links)
            /\ \A k \in 1..Len(cs) : cs[k].link = links[k]
            /\ (i \in resTouched =>
                   /\ cs # <<>>
                   /\ resData[i].working_embed_url = Some(cs[Len(cs)].link))

\* a match with three links had all three loaded, the first two raising
C2_Witness ==
    /\ resPc = "done"
    /\ \E i \in 1..Len(resData) :
        /\ Len(CallsOf(resCalls, i)) = 3
        /\ i \in resTouched

(* C3: when every candidate of a match fails (each load times out or
   raises), get_working_m3u8 returns (None, None): the match is assigned
   nothing. *)
C3_AllFailedReturnsAbsent ==
    \A i \in 1..Len(resData) :
        (ResAttempted(i) /\ \A k \in 1..Len(CallsOf(resCalls, i)) :
                               Failed(CallsOf(resCalls, i)[k]))
            => (i \notin resTouched /\ resData[i] = resLoaded[i])

(* C4: in a resolution tick, when the resolution of a match without a
   locator fails because every candidate times out or raises, the match's
   m3u8_url, working_embed_url and m3u8_updated_at stay unset, in memory and
   in what the tick writes, so that a tick run while the match is in its
   window attempts it again. *)
C4_FailedResolutionLeavesUnset ==
    resPc = "done" =>
        \A i \in 1..Len(resData) :
            (ResAttempted(i) /\ \A k \in 1..Len(CallsOf(resCalls, i)) :
                                   Failed(CallsOf(resCalls, i)[k]))
                => (/\ Unresolved(resData[i])
                    /\ \A w \in 1..Len(resWrites) : Unresolved(resWrites[w][i])
                    /\ NeedsResolution(resData[i], resData[i].dateTime.t))

(* C5: in a refresh tick, when the load of the working_embed_url fails (it
   times out or raises), the match keeps the m3u8_url it had: after the
   tick the match still holds the previous manifest URL. *)
C5_FailedRefreshKeepsLocator ==
    \A k \in 1..Len(refCalls) :
        Failed(refCalls[k]) =>
            /\ refData[refCalls[k].rec].m3u8_url = refLoaded[refCalls[k].rec].m3u8_url
            /\ \A w \in 1..Len(refWrites) :
                   refWrites[w][refCalls[k].rec].m3u8_url
                       = refLoaded[refCalls[k].rec].m3u8_url

(* C6: a failed refresh attempt (the load timed out or raised) neither
   removes nor changes the match's working_embed_url: the handle it had
   before the attempt it has, with the same value, after it, in memory and
   in what the tick writes to the file. *)
C6_FailedRefreshKeepsHandle ==
    \A k \in 1..Len(refCalls) :
        Failed(refCalls[k]) =>
            LET i == refCalls[k].rec
            IN  /\ refLoaded[i].working_embed_url = Some(refCalls[k].link)
                /\ refData[i].working_embed_url = refLoaded[i].working_embed_url
                /\ \A w \in 1..Len(refWrites) :
                       refWrites[w][i].working_embed_url = refLoaded[i].working_embed_url

\* a refresh tick has ended in which a load timed out and another raised
C6_Witness ==
    /\ refPc = "done"
    /\ \E j, k \in 1..Len(refCalls) :
        /\ refCalls[j].out.kind = "timeout"
        /\ refCalls[k].out.kind = "error"

(* C7: in one refresh tick, a match whose locator satisfies
   expiresAt - now <= threshold causes exactly one load, made on the match's
   working_embed_url and on no other link. *)
C7_DueMatchLoadedOnce ==
    refPc = "done" =>
        \A i \in refDue :
            LET cs == CallsOf(refCalls, i)
            IN  /\ Len(cs) = 1
                /\ refLoaded[i].working_embed_url = Some(cs[1].link)

\* the locator of the match is a URL without a parameter named expires
NoExpiresParam(match) ==
    LET u == get_m3u8_url_string(match.m3u8_url)
    IN  /\ StrTruthy(u)
        /\ \A k \in 1..Len(The(u).query) : The(u).query[k].k # "expires"

(* C8: a match whose locator URL has no expires query parameter never causes
   a load in a refresh tick, and the refresh loop never modifies its locator:
   in every state of every tick no load is logged for it, its m3u8_url in
   memory is the one loaded, and what the loop writes to the file holds it
   unchanged. *)
C8_NoExpiresNeverRefreshed ==
    \A i \in 1..Len(refLoaded) :
        NoExpiresParam(refLoaded[i]) =>
            /\ CallsOf(refCalls, i) = <<>>
            /\ refData[i].m3u8_url = refLoaded[i].m3u8_url
            /\ \A w \in 1..Len(refWrites) :
                   refWrites[w][i].m3u8_url = refLoaded[i].m3u8_url

\* a refresh tick that saved has ended on a catalog holding a token URL
C8_Witness ==
    /\ refPc = "done"
    /\ Len(refWrites) = 1
    /\ \E i \in 1..Len(refLoaded) : NoExpiresParam(refLoaded[i])

(* C9: for a match in the resolution window with no locator and a non-empty
   stream_links, when a load of one of its links yields a locator, then
   after that tick the match has m3u8_url set to that locator,
   working_embed_url equal to the link that produced it, m3u8_updated_at
   set, and the catalog file has been written exactly once, holding the
   match so updated. *)
C9_ResolutionRecorded ==
    resPc = "done" =>
        \A k \in 1..Len(resCalls) :
            Yielded(resCalls[k]) =>
                LET i == resCalls[k].rec
                IN  /\ Unresolved(resLoaded[i])
                    /\ resLoaded[i].stream_links # <<>>
                    /\ resData[i].m3u8_url = Some(LocatorOf(resCalls[k]))
                    /\ resData[i].working_embed_url = Some(resCalls[k].link)
                    /\ resData[i].m3u8_updated_at # None
                    /\ Len(resWrites) = 1
                    /\ resWrites[1][i] = resData[i]

\* a tick has ended in which the second or third link of a match yielded
C9_Witness ==
    /\ resPc = "done"
    /\ \E k \in 1..Len(resCalls) :
        /\ Yielded(resCalls[k])
        /\ resCalls[k].link # resData[resCalls[k].rec].stream_links[1]

\* the tick function of the loop has been left, by return or by an exception
\* raised by the load or inside the scan
ResEnded == resPc \in {"done", "failed"}
RefEnded == refPc \in {"done", "failed"}

(* C10: at the end of a tick the catalog file has been written exactly once
   if at least one match was changed in the tick and not at all if none was,
   in the resolution tick and in the refresh tick alike; what is written is
   the list in memory, and a tick that changed no match leaves the list as
   loaded. *)
C10_WrittenOnceIffChanged ==
    /\ ResEnded =>
        /\ Len(resWrites) = (IF resTouched # {} THEN 1 ELSE 0)
        /\ resTouched = {} => resData = resLoaded
        /\ resData # resLoaded => resWrites = <<resData>>
    /\ RefEnded =>
        /\ Len(refWrites) = (IF refTouched # {} THEN 1 ELSE 0)
        /\ refTouched = {} => refData = refLoaded
        /\ refData # refLoaded => refWrites = <<refData>>

----------------------------------------------------------------------------
\* an exception has left the tick function of the loop
ResRaised == resPc \in {"failed", "savefailed"}
RefRaised == refPc \in {"failed", "savefailed"}

(* C11: an exception raised inside a tick (by the load, by the handling of a
   match, by the save) never ends a monitor loop: whenever a tick of
   monitor_and_update or of MatchesMonitor.monitor has raised, the loop
   comes to its sleep and after it a later tick loads the catalog. *)
C11_LoopGoesOnAfterRaise ==
    /\ [](ResRaised => <>(resPc = "sleep" /\ <>(resSaw # "none")))
    /\ [](RefRaised => <>(refPc = "sleep" /\ <>(refSaw # "none")))

\* the save of the last resolution tick raised, and a later tick has loaded
C11_Witness ==
    /\ resPending # None
    /\ resPc = "scan"
    /\ resSaw = "json"

----------------------------------------------------------------------------
\* what a tick wrote last holds the locator that match number i has in memory
Persisted(writes, data, i) ==
    /\ writes # <<>>
    /\ writes[Len(writes)][i].m3u8_url = data[i].m3u8_url

\* the for loop of a tick that ended with position pc has left no match
\* unevaluated other than the one it raised at
OthersEvaluated(pc, idx, data) ==
    IF pc = "failed" THEN idx >= Len(data) ELSE idx > Len(data)

(* C12: matches are handled independently within a tick: when a tick that
   loaded the catalog ends, a bad value in one match (date, links, locator,
   expiry) has made the tick skip that match only: every other match of
   the list has been evaluated and every locator the tick assigned is in
   what the tick wrote, whatever the order of the list. *)
C12_RecordsIndependent ==
    /\ (resPc \in {"done", "failed"} /\ resSaw = "json")
          => /\ OthersEvaluated(resPc, resIdx, resData)
             /\ \A i \in resTouched : Persisted(resWrites, resData, i)
    /\ (refPc \in {"done", "failed"} /\ refSaw = "json")
          => /\ OthersEvaluated(refPc, refIdx, refData)
             /\ \A i \in refTouched : Persisted(refWrites, refData, i)

----------------------------------------------------------------------------
(* C13: when the save at the end of a resolution tick raises, the loop goes
   on and the locators resolved in that tick are kept: the list the next
   tick works on is the list that could not be written, with every locator
   it held. *)
C13_UnsavedCatalogKept ==
    (resPending # None /\ resSaw # "none")
        => /\ Len(resLoaded) = Len(The(resPending))
           /\ \A i \in 1..Len(resLoaded) :
                 resLoaded[i].m3u8_url = The(resPending)[i].m3u8_url

----------------------------------------------------------------------------
\* the tick is at its save: the for loop is over and a match was changed
ResAtSave == resPc = "scan" /\ resIdx > Len(resData) /\ ResShouldSave(resUpdated)
RefAtSave == refPc = "scan" /\ refIdx > Len(refData) /\ RefShouldSave(refRefreshed)

(* C14: the catalog file has one writer at a time: no load-modify-save cycle
   runs while another is in progress, so when a tick comes to its save the
   file still holds what the tick loaded, and the save overwrites nothing
   that another cycle wrote after that load. *)
C14_NoLostUpdate ==
    /\ ResAtSave => (fileState = "json" /\ file = resLoaded)
    /\ RefAtSave => (fileState = "json" /\ file = refLoaded)

----------------------------------------------------------------------------
\* a step in which the loop loads the catalog: after it the tick is at its
\* first match with no page load made, about to scan, or over because the
\* load raised or gave nothing to scan
ResLoadStep ==
    /\ resVars' # resVars
    /\ resPc' \in {"scan", "done", "failed"}
    /\ resSaw' # "none" /\ resIdx' = 1 /\ resCalls' = <<>>
RefLoadStep ==
    /\ refVars' # refVars
    /\ \/ refPc' = "scan"
       \/ refPc' \in {"done", "failed"} /\ refSaw' # "json"
    /\ refSaw' # "none" /\ refIdx' = 1 /\ refCalls' = <<>>

\* a step in which the loop goes to sleep
ResSleepStep == resPc # "sleep" /\ resPc' = "sleep"
RefSleepStep == refPc # "sleep" /\ refPc' = "sleep"

\* the tick function has returned with every match evaluated and the save
\* made, or has raised
ResTickOver ==
    \/ resPc \in {"failed", "savefailed"}
    \/ /\ resPc = "done"
       /\ resIdx > Len(resData)
       /\ ResShouldSave(resUpdated) => Len(resWrites) = 1
RefTickOver ==
    \/ refPc \in {"failed", "savefailed"}
    \/ /\ refPc = "done"
       /\ refIdx > Len(refData)
       /\ RefShouldSave(refRefreshed) => Len(refWrites) = 1

(* C15: within one loop ticks never overlap: the loop goes to sleep only
   when the tick is over (its load, all its page loads and its save are
   done), and a load happens only when the loop is in its sleep. *)
C15_TicksDoNotOverlap ==
    [][ /\ ResSleepStep => ResTickOver
        /\ ResLoadStep => resPc = "sleep"
        /\ RefSleepStep => RefTickOver
        /\ RefLoadStep => refPc = "sleep" ]_vars

\* a resolution tick has loaded a catalog that holds what an earlier tick
\* of the loop resolved and saved
C15_Witness ==
    /\ resPc = "scan"
    /\ \E i \in 1..Len(resLoaded) : resLoaded[i].working_embed_url # None

----------------------------------------------------------------------------
(* C16: a save is atomic for the readers of the file: the load of a tick,
   made while the other process is saving or not, finds the whole previous
   text or the whole new text, never an empty or partly written file. *)
C16_LoadSeesCompleteFile ==
    /\ resSaw \notin PartialStates
    /\ refSaw \notin PartialStates

----------------------------------------------------------------------------
\* the file is missing or its content is malformed
BadFile(st) == st \in {"missing", "truncated", "cutchar"}

(* C17: a tick whose load found the catalog file missing or malformed works
   on an empty list: it makes no page load and no write, and it returns
   without raising. *)
C17_BadFileLoadsEmpty ==
    /\ BadFile(resSaw)
          => /\ resPc = "done"
             /\ resData = <<>> /\ resCalls = <<>> /\ resWrites = <<>>
    /\ BadFile(refSaw)
          => /\ refPc = "done"
             /\ refCalls = <<>> /\ refWrites = <<>>

----------------------------------------------------------------------------
\* the fields of a match that are not the engine's
ForeignFields(match) ==
    [doc_id |-> match.doc_id, dateTime |-> match.dateTime,
     stream_links |-> match.stream_links]

\* list new has the matches of list old, in order, with the same foreign fields
SameForeign(old, new) ==
    /\ Len(new) = Len(old)
    /\ \A i \in 1..Len(old) : ForeignFields(new[i]) = ForeignFields(old[i])

(* C18: the engine writes only its own fields: in the list a resolution or
   refresh tick holds in memory and in every list it writes to the file,
   each match has the doc_id, dateTime and stream_links it had when the
   tick loaded it; only m3u8_url, working_embed_url and m3u8_updated_at
   can differ. *)
C18_EngineWritesOwnFields ==
    /\ SameForeign(resLoaded, resData)
    /\ \A k \in 1..Len(resWrites) : SameForeign(resLoaded, resWrites[k])
    /\ SameForeign(refLoaded, refData)
    /\ \A k \in 1..Len(refWrites) : SameForeign(refLoaded, refWrites[k])

\* a refresh tick has written a list that differs from the one it loaded
C18_Witness ==
    /\ refPc = "done"
    /\ refWrites # <<>>
    /\ refWrites[1] # refLoaded

----------------------------------------------------------------------------
\* a step in which the listing scraper writes the file
ScrapeStep == disk' # disk /\ UNCHANGED <<resVars, refVars, disVars>>

\* the fields of a match that the engine writes
EngineFields(match) ==
    [m3u8_url |-> match.m3u8_url, working_embed_url |-> match.working_embed_url,
     m3u8_updated_at |-> match.m3u8_updated_at]

(* C19: the listing scraper merges when it writes the catalog: every match
   that was in the file and is still listed has, in the file the scraper
   leaves, the m3u8_url, working_embed_url and m3u8_updated_at it had. *)
C19_ScraperKeepsEngineFields ==
    [][ ScrapeStep =>
          \A i \in 1..Len(file) : \A j \in 1..Len(file') :
             file[i].doc_id = file'[j].doc_id
                => EngineFields(file'[j]) = EngineFields(file[i]) ]_vars

----------------------------------------------------------------------------
(* C20: for every locator whose expires value is an integer, zero and past
   values included, every instant and every threshold, is_expiring_soon
   returns true exactly when expiresAt - now <= threshold, and the refresh
   tick attempts a refresh of a match holding the locator exactly then. *)
C20_ExpiringSoonIffWithinThreshold ==
    probe.done =>
        LET expiresAt == The(PyInt(probe.digits))
            within == expiresAt - probe.t <= probe.minutes * SecondsPerMinute
        IN  /\ probe.soon <=> within
            /\ probe.refreshes <=> within

----------------------------------------------------------------------------
\* scheduledStart - now of a window probe on a date that parses
StartsIn == probe.d.t - probe.t

(* C21: is_within_10_minutes(scheduledStart) is true if and only if
   -10 minutes <= scheduledStart - now <= 10 minutes: true at both
   boundaries, false one second beyond either. *)
C21_ResolutionWindow ==
    (probe.done /\ probe.d.iso) =>
        (probe.in10 <=>
            /\ 0 - WindowMinutes * SecondsPerMinute <= StartsIn
            /\ StartsIn <= WindowMinutes * SecondsPerMinute)

\* the predicate was true for a match that started exactly ten minutes ago
C21_Witness ==
    /\ probe.done /\ probe.d.iso
    /\ StartsIn = 0 - WindowMinutes * SecondsPerMinute
    /\ probe.in10

(* C22: is_within_30_minutes(scheduledStart) is true if and only if
   0 <= scheduledStart - now <= 30 minutes: false for every match already
   started and for every match more than 30 minutes away. *)
C22_DiscoveryWindow ==
    (probe.done /\ probe.d.iso) =>
        (probe.in30 <=>
            /\ 0 <= StartsIn
            /\ StartsIn <= DiscoveryMinutes * SecondsPerMinute)

\* the predicate was false for a match that started one second ago
C22_Witness ==
    /\ probe.done /\ probe.d.iso
    /\ StartsIn = 0 - 1
    /\ ~probe.in30

----------------------------------------------------------------------------
\* the dateTime of the match is absent, null or text that does not parse
DateUnusable(match) == fromisoformat(match.dateTime) = None

\* no call of get_match_links was made for match number i in this tick
NoLinksCall(i) == \A k \in 1..Len(disCalls) : disCalls[k].rec # i

(* C23: a match whose dateTime is absent or does not parse makes both window
   predicates false at every time and never activates: no discovery tick
   calls get_match_links for it or gives it links, no resolution tick loads
   a page for it or changes it, and no tick is left by an exception of a
   predicate. *)
C23_BadDateNeverActivates ==
    /\ \A i \in 1..Len(file) :
          DateUnusable(file[i]) =>
             /\ ~is_within_10_minutes(file[i].dateTime, now)
             /\ ~is_within_30_minutes(file[i].dateTime, now)
    /\ \A i \in 1..Len(disLoaded) :
          DateUnusable(disLoaded[i]) =>
             /\ NoLinksCall(i)
             /\ disData[i] = disLoaded[i]
             /\ \A w \in 1..Len(disWrites) : disWrites[w][i] = disLoaded[i]
    /\ \A i \in 1..Len(resLoaded) :
          DateUnusable(resLoaded[i]) =>
             /\ CallsOf(resCalls, i) = <<>>
             /\ resData[i] = resLoaded[i]
             /\ \A w \in 1..Len(resWrites) : resWrites[w][i] = resLoaded[i]
    /\ disPc # "failed"
    /\ resPc # "failed"

\* a discovery tick has ended that gave links to one match and passed over a
\* match without links whose date does not parse
C23_Witness ==
    /\ disPc = "done"
    /\ disTouched # {}
    /\ \E i \in 1..Len(disLoaded) :
          DateUnusable(disLoaded[i]) /\ disLoaded[i].stream_links = <<>>

----------------------------------------------------------------------------
\* text that is a base-10 integer: an optional sign, then digits
IntegerText(v) ==
    LET body == IF Len(v) > 0 /\ v[1] \in {"-", "+"} THEN Tail(v) ELSE v
    IN  Len(body) > 0 /\ \A i \in 1..Len(body) : body[i] \in Digits

(* C24: get_expiry_timestamp is total: for every string, the empty string,
   text that is no URL, malformed URLs and URLs whose expires value is not
   an integer included, it returns and never raises; and it returns an integer
   only when a parameter named expires holds a base-10 integer. *)
C24_ParseExpiryTotal ==
    probe.done =>
        /\ ~probe.raised
        /\ probe.ret # None =>
              \E k \in 1..Len(probe.url.query) :
                 /\ probe.url.query[k].k = "expires"
                 /\ IntegerText(probe.url.query[k].v)

----------------------------------------------------------------------------
\* a response whose URL contains '.m3u8', whose request is of XHR or fetch
\* type and whose status is 200
ManifestResponse(r) ==
    /\ HasM3u8(r.url)
    /\ r.type \in {"xhr", "fetch"}
    /\ r.status = StatusOK

\* the responses that had arrived when the wait of line 36 ended
SeenInWait == SubSeq(probe.arrived, 1, probe.seen)

(* C25: scrape_m3u8 resolves with the first response, in arrival order,
   whose URL contains '.m3u8', whose request is of XHR or fetch type and
   whose status is 200: when such a response arrived during the wait the
   value returned holds its URL and its request's headers, and when none
   did, every response having been ignored, the value is that of the
   timeout. *)
C25_FirstManifestResponse ==
    probe.pc = "returned" =>
        LET ms == SelectSeq(SeenInWait, ManifestResponse)
        IN  IF ms # <<>> THEN probe.ret = Some(ResultOf(ms[1]))
            ELSE probe.ret = Some(TimeoutResult)

(* C26: scrape_m3u8 closes the browser before it returns, on the success
   path and on the timeout path: when it has returned a value the browser it
   opened is closed. *)
C26_BrowserClosedOnReturn ==
    probe.pc = "returned" =>
        /\ probe.ret # None
        /\ probe.browser = "closed"

\* scrape_m3u8 has returned after the timeout, responses having arrived
C26_Witness ==
    /\ probe.pc = "returned"
    /\ probe.ret = Some(TimeoutResult)
    /\ probe.arrived # <<>>

(* C27: exactly one of a matching response and the timeout decides the wait
   of scrape_m3u8: the result of the future is set at most once and never
   after the timeout, and the value returned is the one the wait was decided
   with, whatever matching responses arrive later. *)
C27_WaitDecidedOnce ==
    /\ probe.sets <= 1
    /\ probe.future.state = "cancelled" => probe.sets = 0
    /\ probe.pc = "returned" => probe.ret = probe.decided

\* scrape_m3u8 has returned the value of the first of two matching
\* responses, or that of the timeout with a matching response arrived after
C27_Witness ==
    /\ probe.pc = "returned"
    /\ \E k \in 1..Len(probe.arrived) :
          /\ handle_response(PendingFuture, probe.arrived[k]) # PendingFuture
          /\ probe.ret # Some(ResultOf(probe.arrived[k]))

----------------------------------------------------------------------------
\* list new holds the matches of list old, no more and no fewer, in order
SameRecords(old, new) ==
    /\ Len(new) = Len(old)
    /\ \A i \in 1..Len(old) : new[i].doc_id = old[i].doc_id

(* C28: every list a discovery, resolution or refresh tick writes to the
   catalog file holds exactly the matches the tick loaded, in the same
   order: no tick deletes, adds or reorders matches. *)
C28_WritesKeepRecords ==
    /\ \A w \in 1..Len(disWrites) : SameRecords(disLoaded, disWrites[w])
    /\ \A w \in 1..Len(resWrites) : SameRecords(resLoaded, resWrites[w])
    /\ \A w \in 1..Len(refWrites) : SameRecords(refLoaded, refWrites[w])

\* a discovery tick has written a list of two matches of which it gave links
\* to one only
C28_Witness ==
    /\ disPc = "done"
    /\ disWrites # <<>>
    /\ Len(disLoaded) >= 2
    /\ \E i \in 1..Len(disLoaded) : disWrites[1][i].stream_links = <<>>

----------------------------------------------------------------------------
\* the match holds no manifest URL: no m3u8_url, or one whose URL is null
NoManifest(match) == get_m3u8_url_string(match.m3u8_url) = None

\* the match has been in the resolution window since the clock of the model
\* started
InWindowSince(match) ==
    /\ is_within_10_minutes(match.dateTime, T0)
    /\ is_within_10_minutes(match.dateTime, now)

(* C29: a match that has links and has not resolved is never abandoned: every
   resolution tick that runs while the match is in its window attempts it
   again, whatever the earlier attempts came to, as long as the catalog
   holds the match. *)
C29_UnresolvedRetried ==
    resPc = "done" =>
        \A i \in 1..Len(resLoaded) :
            (/\ resLoaded[i].stream_links # <<>>
             /\ NoManifest(resLoaded[i])
             /\ InWindowSince(resLoaded[i]))
                => CallsOf(resCalls, i) # <<>>

----------------------------------------------------------------------------
(* C30: for every valid list of matches, the empty list and matches without
   their optional fields included, saving what load_matches returned and
   loading again gives an equal list, and saving that list again gives the
   same text. *)
C30_StoreRoundTrip ==
    probe.stage = "reloaded" =>
        /\ probe.reloaded = probe.loaded
        /\ save_matches(probe.reloaded) = probe.saved

\* a list holding a match with a null locator was loaded from a text without
\* indentation, saved and loaded again
C30_Witness ==
    /\ probe.stage = "reloaded"
    /\ probe.saved # probe.file
    /\ \E i \in 1..Len(probe.loaded) :
          \E k \in 1..Len(probe.loaded[i].items) :
             probe.loaded[i].items[k].v = JNull

----------------------------------------------------------------------------

AlphaNumeric == LowerCase \cup UpperCase \cup Digits

\* the title with every run of characters that are not alphanumeric replaced
\* by one hyphen
RECURSIVE Hyphenated(_)
Hyphenated(title) ==
    IF title = <<>> THEN <<>>
    ELSE LET c == Head(title)
             rest == Hyphenated(Tail(title))
         IN  IF c \notin AlphaNumeric
             THEN IF rest # <<>> /\ Head(rest) = "-" THEN rest ELSE <<"-">> \o rest
             ELSE <<c>> \o rest

(* C31: generate_doc_id is deterministic, two calls on the same pair of names
   give the same id, and for two non-empty names the id is the lowercased
   title 'home vs away' in which every run of non-alphanumeric characters is
   one hyphen, without leading and trailing hyphens. *)
C31_DocIdFromNames ==
    (probe.fn = "generate_doc_id" /\ probe.done) =>
        /\ probe.ret = probe.again
        /\ (probe.home_team # <<>> /\ probe.away_team # <<>>) =>
               probe.ret = strip_hyphens(Hyphenated(
                               match_title(probe.home_team, probe.away_team)))

----------------------------------------------------------------------------
\* the match is in the resolution window at instant t
InResolutionWindow(match, t) ==
    /\ match.dateTime.iso
    /\ ~match.dateTime.null
    /\ 0 - WindowMinutes * SecondsPerMinute <= match.dateTime.t - t
    /\ match.dateTime.t - t <= WindowMinutes * SecondsPerMinute

\* the resolution tick starts resolving the match the for loop is at
ResResolveStep == resPc = "scan" /\ resPc' = "try"

\* the resolution tick loads a page
ResCallStep == resCalls' # resCalls /\ resCalls' # <<>>

(* C32: a resolution tick starts resolving a match only if, at that moment,
   the match holds no m3u8_url, has a non-empty list of links and is in the
   resolution window; every page the tick loads is a link of the match being
   resolved, which still holds no m3u8_url: a match that holds one is never
   loaded for by the resolution loop. *)
C32_ResolvesOnlyUnresolved ==
    [][ /\ ResResolveStep =>
               /\ resData[resIdx].m3u8_url = None
               /\ resData[resIdx].stream_links # <<>>
               /\ InResolutionWindow(resData[resIdx], now)
        /\ ResCallStep =>
               /\ resPc = "try"
               /\ resCalls' = Append(resCalls, resCalls'[Len(resCalls')])
               /\ resCalls'[Len(resCalls')].rec = resIdx
               /\ resData[resIdx].m3u8_url = None
               /\ \E c \in 1..Len(resData[resIdx].stream_links) :
                      resCalls'[Len(resCalls')].link =
                          resData[resIdx].stream_links[c] ]_vars

\* a resolution tick has passed a match that came with a manifest URL, in its
\* window and with links, without loading a page for it, and has loaded a
\* page for another match
C32_Witness ==
    /\ resCalls # <<>>
    /\ \E i \in 1..Len(resLoaded) :
         /\ resIdx > i
         /\ ~NoManifest(resLoaded[i])
         /\ resLoaded[i].stream_links # <<>>
         /\ InResolutionWindow(resLoaded[i], now)
         /\ CallsOf(resCalls, i) = <<>>

----------------------------------------------------------------------------
\* match number i of the catalog file holds a handle and a locator whose
\* expiry is within the threshold or past
DueInFile(i) ==
    /\ fileState = "json"
    /\ i <= Len(file)
    /\ file[i].working_embed_url # None
    /\ DueAt(file[i], ThresholdMinutes, now)

\* the refresh tick has loaded the handle of match number i
HandleLoaded(i) == CallsOf(refCalls, i) # <<>>

\* the refresh tick has loaded the handle of match number i and the load
\* observed a manifest URL
HandleYielded(i) ==
    /\ CallsOf(refCalls, i) # <<>>
    /\ Yielded(CallsOf(refCalls, i)[1])

\* the refresh tick has written match number i with the locator its load of
\* the handle observed
FreshlyRefreshed(i) ==
    /\ refWrites # <<>>
    /\ HandleYielded(i)
    /\ i <= Len(refWrites[Len(refWrites)])
    /\ refWrites[Len(refWrites)][i].m3u8_url =
           Some(LocatorOf(CallsOf(refCalls, i)[1]))

(* C33: when the loads of a match's handle, as long as the refresh loop goes
   on making them, succeed again and again, a match whose locator in the
   catalog is within the refresh threshold or expired is eventually written
   with a freshly resolved locator: no failed refresh attempt leaves the match
   in a state from which it is never refreshed. *)
C33_DueEventuallyRefreshed ==
    \A i \in 1..MaxRecs :
        ([]<>HandleLoaded(i) => []<>HandleYielded(i)) =>
            [](DueInFile(i) => <>FreshlyRefreshed(i))

----------------------------------------------------------------------------
\* the lists the three loops wrote to the catalog file in their current ticks
WrittenLists ==
    {resWrites[k] : k \in 1..Len(resWrites)}
        \cup {refWrites[k] : k \in 1..Len(refWrites)}
        \cup {disWrites[k] : k \in 1..Len(disWrites)}

\* the links of a match, as a set
LinksOf(match) == {match.stream_links[c] : c \in 1..Len(match.stream_links)}

(* C34: in every list a tick of the three loops writes to the catalog file, a
   match that holds an m3u8_url also holds a working_embed_url, and that
   working_embed_url is one of its stream_links. *)
C34_LocatorHasHandleAmongLinks ==
    \A w \in WrittenLists :
        \A i \in 1..Len(w) :
            w[i].m3u8_url # None =>
                /\ w[i].working_embed_url # None
                /\ w[i].working_embed_url \subseteq LinksOf(w[i])

\* a refresh tick has written a match that holds a manifest URL and whose
\* links the discovery loop found
C34_Witness ==
    /\ refWrites # <<>>
    /\ \E i \in 1..Len(refWrites[1]) :
         /\ ~NoManifest(refWrites[1][i])
         /\ refWrites[1][i].links_updated_at \subseteq T0..now
         /\ refWrites[1][i].links_updated_at # None

----------------------------------------------------------------------------
\* the match is in the discovery window at instant t
InDiscoveryWindow(match, t) ==
    /\ match.dateTime.iso
    /\ ~match.dateTime.null
    /\ 0 <= match.dateTime.t - t
    /\ match.dateTime.t - t <= DiscoveryMinutes * SecondsPerMinute

\* a tick that loaded the list loaded and now holds data has left every
\* non-empty stream_links as loaded
KeepsLinks(loaded, data) ==
    \A i \in 1..Len(loaded) :
        (i <= Len(data) /\ loaded[i].stream_links # <<>>) =>
            data[i].stream_links = loaded[i].stream_links

\* the non-empty stream_links the lists written in the current ticks hold are
\* those of the catalog file
WrittenLinksStay ==
    fileState = "json" =>
        \A w \in WrittenLists :
            \A i \in 1..Len(w), j \in 1..Len(file) :
                (w[i].stream_links # <<>> /\ file[j].doc_id = w[i].doc_id) =>
                    file[j].stream_links = w[i].stream_links

(* C35: stream_links is write-once.  A discovery tick assigns it only to a
   match that was loaded with no links and is in the discovery window when
   assigned, and only a non-empty list; no tick of any loop changes a
   non-empty stream_links it loaded; and the non-empty stream_links a tick
   wrote to the catalog file stay in the file. *)
C35_LinksWriteOnce ==
    /\ \A i \in disTouched :
           /\ disLoaded[i].stream_links = <<>>
           /\ disData[i].stream_links # <<>>
           /\ disData[i].links_updated_at # None
           /\ InDiscoveryWindow(disData[i], The(disData[i].links_updated_at))
    /\ KeepsLinks(disLoaded, disData)
    /\ KeepsLinks(resLoaded, resData)
    /\ KeepsLinks(refLoaded, refData)
    /\ WrittenLinksStay


====
